---- MODULE Spec2Model ----
(***************************************************************************)
(* PearlPath API: bookings, rides, ratings, safety incidents, points of   *)
(* interest and pricing.                                                   *)
(*                                                                         *)
(* The state is the content of the backing store (bookings, guides,        *)
(* drivers, safety incidents), the wall clock, and the HTTP response of    *)
(* the request handled last.  One action per request handler; a handler    *)
(* with its middleware chain is one action.                                *)
(*                                                                         *)
(* Time is counted in minutes.  Money is counted in cents (DECIMAL(10,2)). *)
(* Provider ratings are counted in tenths (Math.round(x * 10) / 10).       *)
(***************************************************************************)
EXTENDS Integers, Sequences, FiniteSets, TLC

VARIABLES bookings, guides, drivers, incidents, now, resp, pois, quote,
          rateRequests, inflight

vars == <<bookings, guides, drivers, incidents, now, resp, pois, quote,
          rateRequests, inflight>>

\* the booking side of the store, and the rest of it
core == <<bookings, guides, drivers, incidents, now>>
ext == <<pois, quote, rateRequests, inflight>>

----------------------------------------------------------------------------
(* Bounds of the model *)

MaxRides == 1          \* rides in the store (ride and booking lifecycles)
MaxCreates == 2        \* rides in the store (creation requests)
MaxRatings == 2        \* rating writes applied to one provider
MaxCount == 2          \* cap of total_bookings / total_rides
MaxIncidents == 1      \* safety incidents in the store

Hour == 60

(* Instants at which the clock is observed.  With the stored booking       *)
(* starting at hour 30 they are 30, 25, 24, 10, 2 and 1 hours ahead of its *)
(* start.                                                                  *)
Instants == {0 * Hour, 5 * Hour, 6 * Hour, 20 * Hour, 28 * Hour, 29 * Hour}

(* Instants observed over the lifecycle of a ride *)
RideInstants == {29 * Hour}

----------------------------------------------------------------------------
(* Users, roles and provider profiles *)

Null == "null"
NoTime == -1

Users == {"alice", "bob", "gina", "dan", "root"}
Guides == {"G1"}
Drivers == {"D1"}

\* users.role
role(u) ==
    CASE u = "root" -> "admin"
      [] u = "gina" -> "guide"
      [] u = "dan" -> "driver"
      [] OTHER -> "tourist"

\* guides.user_id / drivers.user_id: the profile id is a fresh uuid, never
\* the id of the user who owns the profile
GuideUser(g) == "gina"
DriverUser(d) == "dan"

isStaff(u) == role(u) \in {"admin", "moderator"}

----------------------------------------------------------------------------
(* HTTP responses *)

\* the body of a createBooking request, kept with its response
NoReq == [guideId |-> Null, driverId |-> Null, startDate |-> NoTime,
          endDate |-> NoTime, duration |-> 0]

NoResp == [op |-> "none", id |-> 0, user |-> Null, code |-> 0, val |-> 0,
           req |-> NoReq]

\* op: the handler; id: the booking addressed (0: none); code: the HTTP
\* status; val: refundAmount of a cancel response
Response(op, id, u, code) ==
    [op |-> op, id |-> id, user |-> u, code |-> code, val |-> 0,
     req |-> NoReq]

----------------------------------------------------------------------------
(* Rows of the bookings table *)

\* the row Booking.create inserts
NewBooking(u, type, g, d, start, end, duration, total) ==
    [userId |-> u, guideId |-> g, driverId |-> d, type |-> type,
     startDate |-> start, endDate |-> end, duration |-> duration,
     totalAmount |-> total, commission |-> 0, status |-> "pending",
     cancelledAt |-> NoTime, cancelledBy |-> Null,
     cancellationReason |-> Null, refundAmount |-> 0,
     rating |-> 0, review |-> Null,
     paymentStatus |-> "pending", paymentMethod |-> Null,
     paymentId |-> Null]

\* A guide booking held by the store: alice booked guide G1 for hours
\* 30..32 (duration in hours) at 1000.00
StoredBookings ==
    << NewBooking("alice", "guide", "G1", Null, 30 * Hour, 32 * Hour, 2,
                  100000) >>

BookingIds == 1..Len(bookings)

AllDays == {"monday", "tuesday", "wednesday", "thursday", "friday",
            "saturday", "sunday"}

\* "08:00" .. "18:00" as <<hours, minutes>>
DayShift == [start |-> <<8, 0>>, end |-> <<18, 0>>]

\* guide G1: not yet verified, rated 4.0 over 10 reviews
\* driver D1: verified, not rated yet; 300.00 base, 50.00 per km, 5.00 per
\* minute
StoredGuides ==
    [g \in Guides |->
       [isAvailable |-> TRUE, verificationStatus |-> "pending",
        bio |-> "guide", availableDays |-> AllDays, workingHours |-> DayShift,
        rating |-> 40, totalReviews |-> 10, totalBookings |-> 0]]

StoredDrivers ==
    [d \in Drivers |->
       [isOnline |-> TRUE, verificationStatus |-> "verified",
        availableDays |-> AllDays, workingHours |-> DayShift,
        rating |-> 0, totalReviews |-> 0, totalRides |-> 0,
        baseRate |-> 30000, perKmRate |-> 5000, perMinuteRate |-> 500]]

\* the pois table holds an active, approved "Galle Fort Museum"
StoredPois ==
    << [name |-> "Galle Fort Museum", position |-> 0, createdBy |-> "root",
        status |-> "active", approval_status |-> "approved"] >>

\* the body of the last pricing or availability response
NoQuote == [op |-> "none"]

Init ==
    /\ bookings = StoredBookings
    /\ guides = StoredGuides
    /\ drivers = StoredDrivers
    /\ incidents = << >>
    /\ now = 0
    /\ resp = NoResp
    /\ pois = StoredPois
    /\ quote = NoQuote
    /\ rateRequests = << >>
    /\ inflight = << >>

\* the store of the rating scenarios: guide G1 has a second booking, of
\* the following day
StoredRatedBookings ==
    Append(StoredBookings,
           NewBooking("alice", "guide", "G1", Null, 54 * Hour, 56 * Hour, 2,
                      100000))

InitRating ==
    /\ bookings = StoredRatedBookings
    /\ guides = StoredGuides
    /\ drivers = StoredDrivers
    /\ incidents = << >>
    /\ now = 0
    /\ resp = NoResp
    /\ pois = StoredPois
    /\ quote = NoQuote
    /\ rateRequests = << >>
    /\ inflight = << >>

----------------------------------------------------------------------------
(* The wall clock *)

Tick(instants) ==
    /\ \E t \in instants : t > now /\ now' = t
    /\ resp' = NoResp
    /\ UNCHANGED <<bookings, guides, drivers, incidents, ext>>

----------------------------------------------------------------------------
(* Notification service *)

\* the methods class NotificationService defines
NotificationServiceMethods ==
    {"createNotification", "sendBookingNotification",
     "sendVerificationNotification", "sendCommunityUpdateNotification",
     "sendEventNotification", "sendSafetyAlertNotification",
     "getUserNotifications", "markAsRead", "markAllAsRead", "getUnreadCount"}

\* `await notificationService.<method>(...)` followed by res.json: calling
\* a method the service does not define throws a TypeError, which the
\* handler's catch passes to errorHandler (500)
AfterNotify(method, okCode) ==
    IF method \in NotificationServiceMethods THEN okCode ELSE 500

----------------------------------------------------------------------------
(* Rounding *)

\* Math.round(cents * 0.10): a tenth, rounded half up
RoundTenth(cents) == (cents + 5) \div 10

----------------------------------------------------------------------------
(* Ride controller *)

RideRequesters == {"alice"}
RideActors == {"alice", "dan"}
BookingActors == {"alice", "bob", "gina", "root"}
Fares == {20000}
RideMinutes == {0, 60}      \* 0: estimatedDuration absent
\* the body of a completeRide request; 0: field absent
CompleteInputs == {[actualDuration |-> 0, finalFare |-> 0],
                   [actualDuration |-> 45, finalFare |-> 25000]}

NumRides == Cardinality({b \in BookingIds : bookings[b].type = "ride"})

\* stored procedure increment_driver_rides
IncrementDriverRides(d) ==
    [drivers EXCEPT ![d].totalRides = @ + 1]

requestRide(u, d, fare, minutes) ==
    /\ IF ~drivers[d].isOnline
       THEN /\ resp' = Response("requestRide", 0, u, 400)
            /\ UNCHANGED bookings
       ELSE IF drivers[d].verificationStatus # "verified"
       THEN /\ resp' = Response("requestRide", 0, u, 400)
            /\ UNCHANGED bookings
       ELSE LET dur == IF minutes = 0 THEN 30 ELSE minutes
                row == [NewBooking(u, "ride", Null, d, now, now + dur, dur,
                                   fare)
                          EXCEPT !.commission = RoundTenth(fare)]
            IN /\ bookings' = Append(bookings, row)
               /\ resp' = Response("requestRide", Len(bookings) + 1, u,
                                   AfterNotify("sendRideRequest", 201))
    /\ UNCHANGED <<guides, drivers, incidents, now, ext>>

\* variant for C8: every caller passes the driver check
isAssignedDriver_AnyCaller(booking, u) == TRUE

\* booking.drivers.user_id === userId
isAssignedDriver(booking, u) == DriverUser(booking.driverId) = u

respondToRideRequest(id, u, action) ==
    LET booking == bookings[id] IN
    /\ IF booking.driverId = Null
       THEN \* booking.drivers is null: TypeError
            /\ resp' = Response(action, id, u, 500)
            /\ UNCHANGED bookings
       ELSE IF ~isAssignedDriver(booking, u)
       THEN /\ resp' = Response(action, id, u, 403)
            /\ UNCHANGED bookings
       ELSE IF booking.status # "pending"
       THEN /\ resp' = Response(action, id, u, 400)
            /\ UNCHANGED bookings
       ELSE IF action = "accept"
       THEN /\ bookings' = [bookings EXCEPT ![id].status = "confirmed"]
            /\ resp' = Response(action, id, u,
                                AfterNotify("sendRideConfirmed", 200))
       ELSE IF action = "decline"
       THEN /\ bookings' = [bookings EXCEPT
                              ![id].status = "cancelled",
                              ![id].cancelledBy = u,
                              ![id].cancellationReason = "Declined by driver",
                              ![id].cancelledAt = now]
            /\ resp' = Response(action, id, u,
                                AfterNotify("sendRideDeclined", 200))
       ELSE /\ resp' = Response(action, id, u, 400)
            /\ UNCHANGED bookings
    /\ UNCHANGED <<guides, drivers, incidents, now, ext>>

startRide(id, u) ==
    LET booking == bookings[id] IN
    /\ IF booking.driverId = Null
       THEN /\ resp' = Response("startRide", id, u, 500)
            /\ UNCHANGED bookings
       ELSE IF ~isAssignedDriver(booking, u)
       THEN /\ resp' = Response("startRide", id, u, 403)
            /\ UNCHANGED bookings
       ELSE IF booking.status # "confirmed"
       THEN /\ resp' = Response("startRide", id, u, 400)
            /\ UNCHANGED bookings
       ELSE /\ bookings' = [bookings EXCEPT ![id].status = "in_progress",
                                            ![id].startDate = now]
            /\ resp' = Response("startRide", id, u,
                                AfterNotify("sendRideStarted", 200))
    /\ UNCHANGED <<guides, drivers, incidents, now, ext>>

completeRide(id, u, actualDuration, finalFare) ==
    LET booking == bookings[id] IN
    IF booking.driverId = Null
    THEN /\ resp' = Response("completeRide", id, u, 500)
         /\ UNCHANGED <<bookings, guides, drivers, incidents, now, ext>>
    ELSE IF ~isAssignedDriver(booking, u)
    THEN /\ resp' = Response("completeRide", id, u, 403)
         /\ UNCHANGED <<bookings, guides, drivers, incidents, now, ext>>
    ELSE IF booking.status # "in_progress"
    THEN /\ resp' = Response("completeRide", id, u, 400)
         /\ UNCHANGED <<bookings, guides, drivers, incidents, now, ext>>
    ELSE LET fare == IF finalFare # 0 THEN finalFare
                     ELSE booking.totalAmount
             commission == RoundTenth(fare)
         IN /\ drivers[booking.driverId].totalRides < MaxCount
            /\ bookings' = [bookings EXCEPT
                              ![id].status = "completed",
                              ![id].endDate = now,
                              ![id].duration = IF actualDuration # 0
                                               THEN actualDuration
                                               ELSE booking.duration,
                              ![id].totalAmount = fare,
                              ![id].commission = commission]
            /\ drivers' = IncrementDriverRides(booking.driverId)
            /\ resp' = Response("completeRide", id, u,
                                AfterNotify("sendRideCompleted", 200))
            /\ UNCHANGED <<guides, incidents, now, ext>>

----------------------------------------------------------------------------
(* Provider availability switches *)

\* db.drivers with an update method
DbDriversMethods_WithUpdate ==
    {"create", "findById", "findNearby", "updateLocation", "update"}

\* the methods of db.drivers
DbDriversMethods == {"create", "findById", "findNearby", "updateLocation"}

\* Driver.update calls db.drivers.update: a call of a method the object
\* does not have throws, and the handler answers 500
DriverWrites == "update" \in DbDriversMethods

\* the response of a handler whose last write is a Driver.update
AfterDriverUpdate(code) == IF DriverWrites THEN code ELSE 500

\* driverController.updateOnlineStatus
updateOnlineStatus(d, u, isOnline) ==
    /\ IF DriverUser(d) # u
       THEN /\ resp' = Response("updateOnlineStatus", 0, u, 403)
            /\ UNCHANGED drivers
       ELSE /\ drivers' = IF DriverWrites
                          THEN [drivers EXCEPT ![d].isOnline = isOnline]
                          ELSE drivers
            /\ resp' = Response("updateOnlineStatus", 0, u,
                                AfterDriverUpdate(200))
    /\ UNCHANGED <<bookings, guides, incidents, now, ext>>

\* guideController.updateAvailability
updateAvailability(g, u, isAvailable) ==
    /\ IF GuideUser(g) # u
       THEN /\ resp' = Response("updateAvailability", 0, u, 403)
            /\ UNCHANGED guides
       ELSE /\ guides' = [guides EXCEPT ![g].isAvailable = isAvailable]
            /\ resp' = Response("updateAvailability", 0, u, 200)
    /\ UNCHANGED <<bookings, drivers, incidents, now, ext>>


----------------------------------------------------------------------------
(* Dates *)

RangeError == "RangeError"

WeekdayLong == <<"Thursday", "Friday", "Saturday", "Sunday", "Monday",
                 "Tuesday", "Wednesday">>
WeekdayShort == <<"Thu", "Fri", "Sat", "Sun", "Mon", "Tue", "Wed">>
WeekdayNarrow == <<"T", "F", "S", "S", "M", "T", "W">>

DayIndex(t) == ((t \div (24 * Hour)) % 7) + 1

WeekdayLower == <<"thursday", "friday", "saturday", "sunday", "monday",
                  "tuesday", "wednesday">>

\* a formatter that answers the lower-case weekday name for any option
toLocaleDateString_Lowercase(t, weekday) == WeekdayLower[DayIndex(t)]

\* Date.prototype.toLocaleDateString('en-US', { weekday: option }): the
\* weekday option takes "narrow", "short" or "long"; any other value makes
\* Intl.DateTimeFormat throw a RangeError
toLocaleDateString(t, weekday) ==
    CASE weekday = "long" -> WeekdayLong[DayIndex(t)]
      [] weekday = "short" -> WeekdayShort[DayIndex(t)]
      [] weekday = "narrow" -> WeekdayNarrow[DayIndex(t)]
      [] OTHER -> RangeError

\* Date.prototype.getHours
getHours(t) == (t \div Hour) % 24

\* the schedule test shared by Guide.isAvailableForBooking and
\* Driver.isAvailableForRide: "true", "false" or RangeError
ScheduleAllows(p, startTime, duration) ==
    LET dayOfWeek == toLocaleDateString(startTime, "lowercase") IN
    IF dayOfWeek = RangeError THEN RangeError
    ELSE IF dayOfWeek \notin p.availableDays THEN "false"
    ELSE LET startHour == getHours(startTime)
             workingStart == p.workingHours.start[1]
             workingEnd == p.workingHours.end[1]
             endHour == startHour + duration
         IN IF startHour >= workingStart /\ endHour <= workingEnd
            THEN "true" ELSE "false"

isAvailableForBooking(g, startTime, duration) ==
    IF ~guides[g].isAvailable THEN "false"
    ELSE ScheduleAllows(guides[g], startTime, duration)

isAvailableForRide(d, startTime, duration) ==
    IF ~drivers[d].isOnline THEN "false"
    ELSE ScheduleAllows(drivers[d], startTime, duration)

----------------------------------------------------------------------------
(* Booking controller *)

\* requests that pass bookingValidation.create: the type names its
\* providers, startDate is not in the past, endDate is not before startDate
CreateTypes == {"guide", "driver", "combined"}
CreateStarts == {33 * Hour, 57 * Hour}
CreateHours == {2}
CreateAmounts == {100000}

createBooking(u, type, g, d, start, end, duration, total) ==
    LET guideId == IF type \in {"guide", "combined"} THEN g ELSE Null
        driverId == IF type \in {"driver", "combined"} THEN d ELSE Null
        guideOk == IF guideId = Null THEN "true"
                   ELSE isAvailableForBooking(guideId, start, duration)
        driverOk == IF driverId = Null THEN "true"
                    ELSE isAvailableForRide(driverId, start, duration)
        req == [guideId |-> guideId, driverId |-> driverId,
                startDate |-> start, endDate |-> end,
                duration |-> duration]
        answer(id, code) ==
            [Response("createBooking", id, u, code) EXCEPT !.req = req]
    IN
    /\ start >= now
    /\ end >= start
    /\ IF guideOk = RangeError
       THEN /\ resp' = answer(0, 500)
            /\ UNCHANGED bookings
       ELSE IF guideOk = "false"
       THEN /\ resp' = answer(0, 400)
            /\ UNCHANGED bookings
       ELSE IF driverOk = RangeError
       THEN /\ resp' = answer(0, 500)
            /\ UNCHANGED bookings
       ELSE IF driverOk = "false"
       THEN /\ resp' = answer(0, 400)
            /\ UNCHANGED bookings
       ELSE /\ bookings' = Append(bookings,
                              NewBooking(u, type, guideId, driverId, start,
                                         end, duration, total))
            /\ resp' = answer(Len(bookings) + 1, 201)
    /\ UNCHANGED <<guides, drivers, incidents, now, ext>>

\* middleware requireBookingAccess
requireBookingAccess(booking, u) ==
    \/ booking.userId = u
    \/ booking.guideId = u
    \/ booking.driverId = u
    \/ isStaff(u)

\* canConfirm / canStart / canComplete
canTransition(booking, u) ==
    \/ booking.guideId = u
    \/ booking.driverId = u
    \/ isStaff(u)

\* canCancel (and canUpdate)
canCancel(booking, u) ==
    \/ booking.userId = u
    \/ booking.guideId = u
    \/ booking.driverId = u
    \/ isStaff(u)

\* bookingValidation.update: the values of status
BookingStatuses ==
    {"pending", "confirmed", "in_progress", "completed", "cancelled"}

\* bodies of PUT /bookings/:id; Null: the key is absent
UpdateInputs ==
    {[status |-> "pending", specialRequests |-> Null],
     [status |-> "archived", specialRequests |-> Null],
     [status |-> Null, specialRequests |-> "window seat"]}

\* PUT /bookings/:id: requireBookingAccess, validateBookingUpdate,
\* updateBooking.  Booking.update hands the body to the bookings table as
\* it is: status is a column, specialRequests is not (the column is
\* special_requests), and the store refuses an unknown column.
updateBooking(id, u, status, specialRequests) ==
    LET booking == bookings[id] IN
    IF ~requireBookingAccess(booking, u)
    THEN /\ resp' = Response("update", id, u, 403)
         /\ UNCHANGED <<bookings, guides, drivers, incidents, now, ext>>
    ELSE IF status # Null /\ status \notin BookingStatuses
    THEN /\ resp' = Response("update", id, u, 400)
         /\ UNCHANGED <<bookings, guides, drivers, incidents, now, ext>>
    ELSE IF ~canCancel(booking, u)
    THEN /\ resp' = Response("update", id, u, 403)
         /\ UNCHANGED <<bookings, guides, drivers, incidents, now, ext>>
    ELSE IF specialRequests # Null
    THEN /\ resp' = Response("update", id, u, 500)
         /\ UNCHANGED <<bookings, guides, drivers, incidents, now, ext>>
    ELSE /\ bookings' = IF status # Null
                        THEN [bookings EXCEPT ![id].status = status]
                        ELSE bookings
         /\ resp' = Response("update", id, u, 200)
         /\ UNCHANGED <<guides, drivers, incidents, now, ext>>

confirmBooking(id, u) ==
    LET booking == bookings[id] IN
    /\ IF ~requireBookingAccess(booking, u) \/ ~canTransition(booking, u)
       THEN /\ resp' = Response("confirm", id, u, 403)
            /\ UNCHANGED bookings
       ELSE /\ bookings' = [bookings EXCEPT ![id].status = "confirmed"]
            /\ resp' = Response("confirm", id, u, 200)
    /\ UNCHANGED <<guides, drivers, incidents, now, ext>>

startBooking(id, u) ==
    LET booking == bookings[id] IN
    /\ IF ~requireBookingAccess(booking, u) \/ ~canTransition(booking, u)
       THEN /\ resp' = Response("start", id, u, 403)
            /\ UNCHANGED bookings
       ELSE /\ bookings' = [bookings EXCEPT ![id].status = "in_progress"]
            /\ resp' = Response("start", id, u, 200)
    /\ UNCHANGED <<guides, drivers, incidents, now, ext>>

\* amount * rate, stored in a DECIMAL(10,2) column
Percent(amount, rate) == (amount * rate + 50) \div 100

calculateGuideCommission(amount, isVerified) ==
    Percent(amount, IF isVerified THEN 10 ELSE 15)

calculateDriverCommission(amount) == Percent(amount, 5)

calculateCommission(booking) ==
    (IF booking.guideId # Null
     THEN calculateGuideCommission(booking.totalAmount, TRUE) ELSE 0)
    + (IF booking.driverId # Null
       THEN calculateDriverCommission(booking.totalAmount) ELSE 0)

completeBooking(id, u) ==
    LET booking == bookings[id] IN
    IF ~requireBookingAccess(booking, u) \/ ~canTransition(booking, u)
    THEN /\ resp' = Response("complete", id, u, 403)
         /\ UNCHANGED <<bookings, guides, drivers, incidents, now, ext>>
    ELSE /\ booking.guideId # Null
            => guides[booking.guideId].totalBookings < MaxCount
         /\ booking.driverId # Null
            => drivers[booking.driverId].totalRides < MaxCount
         /\ bookings' = [bookings EXCEPT
                           ![id].status = "completed",
                           ![id].commission = calculateCommission(booking)]
         /\ guides' = IF booking.guideId # Null
                      THEN [guides EXCEPT
                              ![booking.guideId].totalBookings = @ + 1]
                      ELSE guides
         /\ drivers' = IF booking.driverId # Null /\ DriverWrites
                       THEN [drivers EXCEPT
                               ![booking.driverId].totalRides = @ + 1]
                       ELSE drivers
         /\ resp' = Response("complete", id, u,
                             IF booking.driverId # Null
                             THEN AfterDriverUpdate(200) ELSE 200)
         /\ UNCHANGED <<incidents, now, ext>>

\* Booking.canBeCancelled: more than two hours before the start
canBeCancelled(booking) ==
    /\ booking.status \in {"pending", "confirmed"}
    /\ booking.startDate - now > 2 * Hour

\* Booking.calculateRefundAmount
calculateRefundAmount(booking) ==
    IF booking.status # "cancelled" THEN 0
    ELSE IF booking.startDate - now > 24 * Hour THEN booking.totalAmount
    ELSE IF booking.startDate - now > 2 * Hour
    THEN Percent(booking.totalAmount, 50)
    ELSE 0

CancelReasons == {"change of plans"}

cancelBooking(id, u, reason) ==
    LET booking == bookings[id] IN
    /\ IF ~requireBookingAccess(booking, u) \/ ~canCancel(booking, u)
       THEN /\ resp' = Response("cancel", id, u, 403)
            /\ UNCHANGED bookings
       ELSE IF ~canBeCancelled(booking)
       THEN /\ resp' = Response("cancel", id, u, 400)
            /\ UNCHANGED bookings
       ELSE LET refundAmount == calculateRefundAmount(booking) IN
            /\ bookings' = [bookings EXCEPT
                              ![id].status = "cancelled",
                              ![id].cancelledAt = now,
                              ![id].cancelledBy = u,
                              ![id].cancellationReason = reason,
                              ![id].refundAmount = refundAmount]
            /\ resp' = [Response("cancel", id, u, 200)
                          EXCEPT !.val = refundAmount]
    /\ UNCHANGED <<guides, drivers, incidents, now, ext>>

\* an average cut to one decimal instead of rounded
updateRating_Truncating(p, newRating) ==
    [p EXCEPT !.rating = (p.rating * p.totalReviews + 10 * newRating)
                             \div (p.totalReviews + 1),
              !.totalReviews = p.totalReviews + 1]

\* Guide.updateRating / Driver.updateRating on a provider row:
\* Math.round(((rating * totalReviews + newRating) / (totalReviews + 1)) * 10)
updateRating(p, newRating) ==
    LET totalReviews == p.totalReviews + 1
        sum10 == p.rating * p.totalReviews + 10 * newRating
    IN [p EXCEPT !.rating = (2 * sum10 + totalReviews) \div (2 * totalReviews),
                 !.totalReviews = totalReviews]

RateInputs == {[rating |-> 5, review |-> "great"],
               [rating |-> 1, review |-> "poor"],
               [rating |-> 6, review |-> "great"]}

\* rating writes applied to a provider row since the initial state
RatingsApplied(p, stored) == p.totalReviews - stored.totalReviews

rateBooking(id, u, rating, review) ==
    LET booking == bookings[id] IN
    IF ~requireBookingAccess(booking, u)
    THEN /\ resp' = Response("rate", id, u, 403)
         /\ UNCHANGED <<bookings, guides, drivers, incidents, now, ext>>
    ELSE IF rating < 1 \/ rating > 5
    THEN /\ resp' = Response("rate", id, u, 400)
         /\ UNCHANGED <<bookings, guides, drivers, incidents, now, ext>>
    ELSE IF booking.userId # u
    THEN /\ resp' = Response("rate", id, u, 403)
         /\ UNCHANGED <<bookings, guides, drivers, incidents, now, ext>>
    ELSE IF booking.status # "completed"
    THEN /\ resp' = Response("rate", id, u, 400)
         /\ UNCHANGED <<bookings, guides, drivers, incidents, now, ext>>
    ELSE /\ booking.guideId # Null
            => RatingsApplied(guides[booking.guideId],
                              StoredGuides[booking.guideId]) < MaxRatings
         /\ booking.driverId # Null
            => RatingsApplied(drivers[booking.driverId],
                              StoredDrivers[booking.driverId]) < MaxRatings
         /\ bookings' = [bookings EXCEPT ![id].rating = rating,
                                         ![id].review = review]
         /\ guides' = IF booking.guideId # Null
                      THEN [guides EXCEPT ![booking.guideId] =
                                            updateRating(@, rating)]
                      ELSE guides
         /\ drivers' = IF booking.driverId # Null /\ DriverWrites
                       THEN [drivers EXCEPT ![booking.driverId] =
                                              updateRating(@, rating)]
                       ELSE drivers
         /\ resp' = Response("rate", id, u,
                             IF booking.driverId # Null
                             THEN AfterDriverUpdate(200) ELSE 200)
         /\ UNCHANGED <<incidents, now, ext>>

----------------------------------------------------------------------------
(* Rating requests in flight *)

(* rateBooking awaits the store four times for a booking with one         *)
(* provider: Booking.findById, booking.addRating, Guide.findById (or       *)
(* Driver.findById) and the update inside updateRating.  Requests of       *)
(* other callers run between two awaits.  rateRequests holds the rating    *)
(* requests accepted so far: pc is the await a request stands before, seen *)
(* the rating and total_reviews that findById returned to it.              *)

MaxRateRequests == 2   \* rating requests accepted

Raters == {"alice"}
NotRead == [rating |-> 0, totalReviews |-> 0]

\* the first provider lookup of a request, and the one after the guide's
AfterAddRating(booking) ==
    IF booking.guideId # Null THEN "findGuide"
    ELSE IF booking.driverId # Null THEN "findDriver" ELSE "done"
AfterGuide(booking) ==
    IF booking.driverId # Null THEN "findDriver" ELSE "done"

\* the request up to booking.addRating
rateBookingBegin(id, u, rating, review) ==
    LET booking == bookings[id] IN
    IF ~requireBookingAccess(booking, u)
    THEN /\ resp' = Response("rate", id, u, 403)
         /\ UNCHANGED <<bookings, guides, drivers, incidents, now, pois,
                        quote, rateRequests, inflight>>
    ELSE IF rating < 1 \/ rating > 5
    THEN /\ resp' = Response("rate", id, u, 400)
         /\ UNCHANGED <<bookings, guides, drivers, incidents, now, pois,
                        quote, rateRequests, inflight>>
    ELSE IF booking.userId # u
    THEN /\ resp' = Response("rate", id, u, 403)
         /\ UNCHANGED <<bookings, guides, drivers, incidents, now, pois,
                        quote, rateRequests, inflight>>
    ELSE IF booking.status # "completed"
    THEN /\ resp' = Response("rate", id, u, 400)
         /\ UNCHANGED <<bookings, guides, drivers, incidents, now, pois,
                        quote, rateRequests, inflight>>
    ELSE /\ Len(rateRequests) < MaxRateRequests
         /\ bookings' = [bookings EXCEPT ![id].rating = rating,
                                         ![id].review = review]
         /\ rateRequests' =
               Append(rateRequests,
                      [id |-> id, user |-> u, rating |-> rating,
                       pc |-> AfterAddRating(booking), seen |-> NotRead])
         /\ resp' = IF AfterAddRating(booking) = "done"
                    THEN Response("rate", id, u, 200) ELSE resp
         /\ UNCHANGED <<guides, drivers, incidents, now, pois, quote, inflight>>

\* Guide.findById / Driver.findById of request i
rateBookingFind(i) ==
    LET r == rateRequests[i]
        booking == bookings[r.id]
    IN /\ r.pc \in {"findGuide", "findDriver"}
       /\ rateRequests' =
             [rateRequests EXCEPT
                ![i].pc = IF r.pc = "findGuide" THEN "updateGuide"
                          ELSE "updateDriver",
                ![i].seen =
                    IF r.pc = "findGuide"
                    THEN [rating |-> guides[booking.guideId].rating,
                          totalReviews |->
                              guides[booking.guideId].totalReviews]
                    ELSE [rating |-> drivers[booking.driverId].rating,
                          totalReviews |->
                              drivers[booking.driverId].totalReviews]]
       /\ UNCHANGED <<bookings, guides, drivers, incidents, now, resp, pois,
                      quote, inflight>>

\* the update of guide.updateRating / driver.updateRating of request i,
\* computed from the row the request read; the response follows the last
\* update
rateBookingUpdate(i) ==
    LET r == rateRequests[i]
        booking == bookings[r.id]
        row == updateRating(r.seen, r.rating)
        next == IF r.pc = "updateGuide" THEN AfterGuide(booking) ELSE "done"
    IN /\ r.pc \in {"updateGuide", "updateDriver"}
       /\ guides' = IF r.pc = "updateGuide"
                    THEN [guides EXCEPT
                            ![booking.guideId].rating = row.rating,
                            ![booking.guideId].totalReviews =
                                row.totalReviews]
                    ELSE guides
       /\ drivers' = IF r.pc = "updateDriver" /\ DriverWrites
                     THEN [drivers EXCEPT
                             ![booking.driverId].rating = row.rating,
                             ![booking.driverId].totalReviews =
                                 row.totalReviews]
                     ELSE drivers
       /\ rateRequests' = [rateRequests EXCEPT ![i].pc = next]
       /\ resp' = IF next = "done"
                  THEN Response("rate", r.id, r.user,
                                IF r.pc = "updateDriver"
                                THEN AfterDriverUpdate(200) ELSE 200)
                  ELSE resp
       /\ UNCHANGED <<bookings, incidents, now, pois, quote, inflight>>

----------------------------------------------------------------------------
(* Safety *)

SosMessages == {Null}

\* variant for C9: an SOS is taken only during the ride
isRideRequester_InProgress(booking, u) ==
    booking.userId = u /\ booking.status = "in_progress"

\* booking.user_id === userId
isRideRequester(booking, u) == booking.userId = u

\* the safety_incidents table (it is not part of schema.sql): an insert
\* stores the row
InsertSafetyIncident(row) == Append(incidents, row)

\* an SOS that also cancels the ride
triggerSOS_Cancelling(id, u, message) ==
    /\ isRideRequester(bookings[id], u)
    /\ incidents' = InsertSafetyIncident(
           [bookingId |-> id, userId |-> u,
            driverId |-> bookings[id].driverId, incidentType |-> "sos",
            message |-> "Emergency SOS triggered", status |-> "open"])
    /\ bookings' = [bookings EXCEPT ![id].status = "cancelled"]
    /\ resp' = Response("sos", id, u, 200)
    /\ UNCHANGED <<guides, drivers, now, ext>>

triggerSOS(id, u, message) ==
    LET booking == bookings[id] IN
    /\ IF ~isRideRequester(booking, u)
       THEN /\ resp' = Response("sos", id, u, 403)
            /\ UNCHANGED incidents
       ELSE /\ incidents' = InsertSafetyIncident(
                  [bookingId |-> id, userId |-> u,
                   driverId |-> booking.driverId, incidentType |-> "sos",
                   message |-> IF message = Null
                               THEN "Emergency SOS triggered" ELSE message,
                   status |-> "open"])
            \* booking.drivers.users of a booking without driver: TypeError
            /\ resp' = Response("sos", id, u,
                                IF booking.driverId = Null THEN 500
                                ELSE AfterNotify("sendSOSAlert", 200))
    /\ UNCHANGED <<bookings, guides, drivers, now, ext>>

ShareContacts == {0, 1}            \* number of contacts of a share request
IncidentTypes == {"harassment"}

\* POST /rides/:id/share: every contact is sent an e-mail or an SMS
shareTripLink(id, u, contacts) ==
    LET booking == bookings[id] IN
    /\ IF ~isRideRequester(booking, u)
       THEN resp' = Response("share", id, u, 403)
       ELSE IF contacts = 0
       THEN resp' = Response("share", id, u, 200)
       ELSE resp' = Response("share", id, u, AfterNotify("sendSMS", 200))
    /\ UNCHANGED <<bookings, guides, drivers, incidents, now, ext>>

\* POST /rides/:id/report-incident: open to the requester and to the
\* caller whose id is the booking's driver_id
reportIncident(id, u, incidentType) ==
    LET booking == bookings[id] IN
    /\ IF booking.userId # u /\ booking.driverId # u
       THEN /\ resp' = Response("report", id, u, 403)
            /\ UNCHANGED incidents
       ELSE /\ incidents' = InsertSafetyIncident(
                  [bookingId |-> id, userId |-> u,
                   driverId |-> booking.driverId,
                   incidentType |-> incidentType,
                   message |-> Null, status |-> "under_review"])
            /\ resp' = Response("report", id, u,
                                AfterNotify("sendIncidentReport", 200))
    /\ UNCHANGED <<bookings, guides, drivers, now, ext>>

----------------------------------------------------------------------------
(* Points of interest *)

MaxPois == 3           \* submissions stored in the pois table

\* a name is its sequence of characters
UpperCase == <<"A", "B", "C", "D", "E", "F", "G", "H", "I", "J", "K", "L", "M", "N", "O", "P", "Q", "R", "S", "T", "U", "V", "W", "X", "Y", "Z">>
LowerCase == <<"a", "b", "c", "d", "e", "f", "g", "h", "i", "j", "k", "l", "m", "n", "o", "p", "q", "r", "s", "t", "u", "v", "w", "x", "y", "z">>
Digits == <<"0", "1", "2", "3", "4", "5", "6", "7", "8", "9">>
Space == " "
Backspace == "\\b"

Chars(t) == {t[i] : i \in 1..Len(t)}

GalleFort == "Galle Fort"
GalleFortMuseum == "Galle Fort Museum"
JungleBeachCafe == "Jungle Beach Cafe"
PoiNames == {GalleFort, GalleFortMuseum, JungleBeachCafe}

\* the characters of a name
Characters(name) ==
    CASE name = GalleFort ->
           <<"G", "a", "l", "l", "e", " ", "F", "o", "r", "t">>
      [] name = GalleFortMuseum ->
           <<"G", "a", "l", "l", "e", " ", "F", "o", "r", "t", " ", "M", "u", "s", "e", "u", "m">>
      [] name = JungleBeachCafe ->
           <<"J", "u", "n", "g", "l", "e", " ", "B", "e", "a", "c", "h", " ", "C", "a", "f", "e">>

\* positions on one meridian inside Sri Lanka, in metres from a reference
\* point; Abroad lies outside the bounding box of locationService
Abroad == 1000000
PoiPositions == {0, 50, 5000, 5050, Abroad}

\* locationService.isInSriLanka
isInSriLanka(pos) == pos # Abroad

\* 6371 * acos(...): the great-circle distance, here of two points of one
\* meridian, in metres
Distance(a, b) == IF a >= b THEN a - b ELSE b - a

\* <<"a", "b", "c", "d", "e", "f", "g", "h", "i", "j", "k", "l", "m", "n", "o", "p", "q", "r", "s", "t", "u", "v", "w", "x", "y", "z">>
Lower(t) ==
    [i \in 1..Len(t) |->
       IF \E k \in 1..26 : UpperCase[k] = t[i]
       THEN LowerCase[CHOOSE k \in 1..26 : UpperCase[k] = t[i]]
       ELSE t[i]]

\* TRIM: leading and trailing spaces removed
Trim(t) ==
    LET inked == {i \in 1..Len(t) : t[i] # Space} IN
    IF inked = {} THEN << >>
    ELSE SubSeq(t, CHOOSE i \in inked : \A j \in inked : i <= j,
                   CHOOSE i \in inked : \A j \in inked : j <= i)

\* REGEXP_REPLACE(name, '[^a-zA-Z0-9\s]', '', 'g')
StripSymbols(t) ==
    SelectSeq(t, LAMBDA c : c \in Chars(UpperCase) \cup Chars(LowerCase)
                                  \cup Chars(Digits) \cup {Space})

\* REGEXP_REPLACE(name, '\s+', ' ', 'g')
SqueezeSpaces(t) ==
    LET from[i \in 1..(Len(t) + 1)] ==
            IF i > Len(t) THEN << >>
            ELSE IF i < Len(t) /\ t[i] = Space /\ t[i + 1] = Space
            THEN from[i + 1]
            ELSE <<t[i]>> \o from[i + 1]
    IN from[1]

CommonWords ==
    {<<"t", "e", "m", "p", "l", "e">>, <<"s", "h", "r", "i", "n", "e">>, <<"m", "u", "s", "e", "u", "m">>,
     <<"p", "a", "r", "k">>, <<"b", "e", "a", "c", "h">>, <<"l", "a", "k", "e">>,
     <<"m", "o", "u", "n", "t", "a", "i", "n">>, <<"h", "i", "l", "l">>,
     <<"r", "i", "v", "e", "r">>, <<"c", "a", "v", "e">>}

StartsWith(t, i, w) ==
    /\ i + Len(w) - 1 <= Len(t)
    /\ SubSeq(t, i, i + Len(w) - 1) = w

WordChars == Chars(UpperCase) \cup Chars(LowerCase) \cup Chars(Digits)

\* variant for C11: \b read as a word boundary
CommonWordMatch_WordBoundary(t, i, w) ==
    IF /\ StartsWith(t, i, w)
       /\ (i = 1 \/ t[i - 1] \notin WordChars)
       /\ (i + Len(w) > Len(t) \/ t[i + Len(w)] \notin WordChars)
    THEN Len(w) ELSE 0

\* the length of a match of '\b(w)\b' at position i of t, 0 when there is
\* none: in a PostgreSQL regular expression \b is the backspace character
\* (the word boundary is \y)
CommonWordMatch(t, i, w) ==
    IF StartsWith(t, i, <<Backspace>> \o w \o <<Backspace>>)
    THEN Len(w) + 2 ELSE 0

\* REGEXP_REPLACE(name, '\b(temple|shrine|...|cave)\b', '', 'gi')
RemoveCommonWords(t) ==
    LET hits(i) == {CommonWordMatch(t, i, w) : w \in CommonWords} \ {0}
        longest(i) == CHOOSE n \in hits(i) : \A m \in hits(i) : m <= n
        from[i \in 1..(Len(t) + 1)] ==
            IF i > Len(t) THEN << >>
            ELSE IF hits(i) = {} THEN <<t[i]>> \o from[i + 1]
            ELSE from[i + longest(i)]
    IN from[1]

\* POSITION(a IN b) > 0
Contains(b, a) == \E i \in 1..(Len(b) + 1) : StartsWith(b, i, a)

NormalizeName(name) ==
    Trim(SqueezeSpaces(RemoveCommonWords(
        Lower(Trim(StripSymbols(Characters(name)))))))

\* variant for C29: without the comparison of the lengths
names_are_similar_NoRatio(name1, name2) ==
    LET norm_name1 == NormalizeName(name1)
        norm_name2 == NormalizeName(name2)
    IN \/ norm_name1 = norm_name2
       \/ Contains(norm_name2, norm_name1)
       \/ Contains(norm_name1, norm_name2)

names_are_similar(name1, name2) ==
    LET norm_name1 == NormalizeName(name1)
        norm_name2 == NormalizeName(name2)
        least == IF Len(norm_name1) <= Len(norm_name2)
                 THEN Len(norm_name1) ELSE Len(norm_name2)
        greatest == IF Len(norm_name1) >= Len(norm_name2)
                    THEN Len(norm_name1) ELSE Len(norm_name2)
    IN \/ norm_name1 = norm_name2
       \/ Contains(norm_name2, norm_name1)
       \/ Contains(norm_name1, norm_name2)
       \/ 10 * least > 6 * greatest       \* similarity_ratio > 0.6

\* the rows the trigger counts: status active or approved, within 0.3 km
ClosePois(pos) ==
    {i \in 1..Len(pois) :
        /\ pois[i].status \in {"active", "approved"}
        /\ Distance(pos, pois[i].position) <= 300}

\* names_are_similar over the names of the model, as a table
SimilarNamePairs ==
    UNION {IF names_are_similar(p[1], p[2]) THEN {p} ELSE {} :
              p \in PoiNames \X PoiNames}

\* trigger auto_approve_poi: the approval_status of the new row
auto_approve_poi(name, pos) ==
    IF ClosePois(pos) # {}
    THEN IF \E i \in ClosePois(pos) :
               <<name, pois[i].name>> \in SimilarNamePairs
         THEN "needs_review" ELSE "approved"
    ELSE "approved"

PoiSubmitters == {"alice"}
PoiImages == {0, 1}    \* number of images of a submission

\* POST /pois: createPOI, POI.create, db.pois.create, the insert trigger.
\* The acos argument of a row at the very coordinates of the new one may
\* round above 1, which fails the insert ("input is out of range").
createPOI(u, name, pos, images) ==
    /\ IF images = 0
       THEN /\ resp' = Response("createPOI", 0, u, 400)
            /\ UNCHANGED pois
       ELSE IF ~isInSriLanka(pos)
       THEN /\ resp' = Response("createPOI", 0, u, 400)
            /\ UNCHANGED pois
       ELSE \/ /\ \E i \in 1..Len(pois) :
                     /\ pois[i].status \in {"active", "approved"}
                     /\ pois[i].position = pos
               /\ resp' = Response("createPOI", 0, u, 500)
               /\ UNCHANGED pois
            \/ /\ pois' = Append(pois,
                     [name |-> name, position |-> pos, createdBy |-> u,
                      status |-> "active",
                      approval_status |-> auto_approve_poi(name, pos)])
               /\ resp' = Response("createPOI", Len(pois) + 1, u, 201)
    /\ UNCHANGED <<core, quote, rateRequests, inflight>>

\* the methods db.pois would need for POI.update to reach the table
DbPoisMethods_WithUpdate ==
    {"create", "findById", "findNearby", "search", "update"}

\* the methods of db.pois, and those of class POI that write a row
DbPoisMethods == {"create", "findById", "findNearby", "search"}
PoiWriters == {"update", "addImage", "updateRating", "incrementVisitCount",
               "verify"}

PoiActors == {"alice", "bob", "root"}

\* bodies of PUT /pois/:id; Null: the key is absent
PoiUpdates ==
    {[name |-> Null, approval_status |-> "approved"],
     [name |-> GalleFort, approval_status |-> Null]}

\* POI.update: the body is handed to db.pois.update as it is; calling a
\* method db.pois does not define throws a TypeError
PoiUpdate(id, updates) ==
    IF "update" \in DbPoisMethods
    THEN [pois EXCEPT
            ![id].name = IF updates.name # Null THEN updates.name ELSE @,
            ![id].approval_status =
                IF updates.approval_status # Null
                THEN updates.approval_status ELSE @]
    ELSE pois

\* the answer of a handler whose last call to the store is POI.update
AfterPoiUpdate == IF "update" \in DbPoisMethods THEN 200 ELSE 500

\* PUT /pois/:id
updatePOI(id, u, updates) ==
    /\ IF pois[id].createdBy # u /\ ~isStaff(u)
       THEN /\ resp' = Response("updatePOI", id, u, 403)
            /\ UNCHANGED pois
       ELSE /\ pois' = PoiUpdate(id, updates)
            /\ resp' = Response("updatePOI", id, u, AfterPoiUpdate)
    /\ UNCHANGED <<core, quote, rateRequests, inflight>>

\* approvePOI: poi.approve is not a method of class POI (TypeError)
approvePOI(id, u) ==
    /\ IF ~isStaff(u)
       THEN resp' = Response("approvePOI", id, u, 403)
       ELSE IF "approve" \in PoiWriters
       THEN resp' = Response("approvePOI", id, u, AfterPoiUpdate)
       ELSE resp' = Response("approvePOI", id, u, 500)
    /\ pois' = IF isStaff(u) /\ "approve" \in PoiWriters
               THEN PoiUpdate(id, [name |-> Null,
                                   approval_status |-> "approved"])
               ELSE pois
    /\ UNCHANGED <<core, quote, rateRequests, inflight>>

RejectReasons == {Null, "duplicate"}

\* rejectPOI: poi.reject is not a method of class POI (TypeError)
rejectPOI(id, u, reason) ==
    /\ IF ~isStaff(u)
       THEN resp' = Response("rejectPOI", id, u, 403)
       ELSE IF reason = Null
       THEN resp' = Response("rejectPOI", id, u, 400)
       ELSE IF "reject" \in PoiWriters
       THEN resp' = Response("rejectPOI", id, u, AfterPoiUpdate)
       ELSE resp' = Response("rejectPOI", id, u, 500)
    /\ pois' = IF isStaff(u) /\ reason # Null /\ "reject" \in PoiWriters
               THEN PoiUpdate(id, [name |-> Null,
                                   approval_status |-> "rejected"])
               ELSE pois
    /\ UNCHANGED <<core, quote, rateRequests, inflight>>

----------------------------------------------------------------------------
(* Pricing *)

Day == 24 * Hour

\* Date.prototype.getDay: 0 is Sunday; the epoch is a Thursday
getDay(t) == (4 + (t \div Day)) % 7

\* Instants at which prices are asked for: Thursday 09:30, Saturday 18:00
QuoteInstants == {9 * Hour + 30, 2 * Day + 18 * Hour}

HoursOfDay == 0..23
Weathers == {"clear", "rain", "storm"}
Demands == {50, 60, 61, 80, 81}    \* demand ratio, in hundredths

\* Math.min
Min(a, b) == IF a < b THEN a ELSE b

\* bumps that compound and are not capped
calculateSurgeMultiplier_Compounding(time, weather, demand) ==
    LET rush == IF (time >= 7 /\ time <= 9) \/ (time >= 17 /\ time <= 19)
                THEN 120 ELSE 100
        weekend == IF getDay(now) \in {0, 6} THEN 110 ELSE 100
        sky == CASE weather = "rain" -> 115
                 [] weather = "storm" -> 125
                 [] OTHER -> 100
        load == IF demand > 80 THEN 130
                ELSE IF demand > 60 THEN 115 ELSE 100
    IN (rush * weekend * sky * load) \div 1000000

\* businessUtils.calculateSurgeMultiplier, in hundredths: the weekend is
\* read off the wall clock, the hour is the argument
calculateSurgeMultiplier(time, weather, demand) ==
    LET morning == IF time >= 7 /\ time <= 9 THEN 20 ELSE 0
        evening == IF time >= 17 /\ time <= 19 THEN 20 ELSE 0
        weekend == IF getDay(now) = 0 \/ getDay(now) = 6 THEN 10 ELSE 0
        rain == IF weather = "rain" THEN 15 ELSE 0
        storm == IF weather = "storm" THEN 25 ELSE 0
        load == IF demand > 80 THEN 30
                ELSE IF demand > 60 THEN 15 ELSE 0
    IN Min(100 + morning + evening + weekend + rain + storm + load, 200)

\* a call of businessUtils.calculateSurgeMultiplier and what it returned;
\* minute is the time of day the caller asks about, in minutes
SurgeQuote(time, minute, weather, demand) ==
    [op |-> "calculateSurgeMultiplier", time |-> time, minute |-> minute,
     weather |-> weather, demand |-> demand,
     multiplier |-> calculateSurgeMultiplier(time, weather, demand)]

\* businessUtils.calculateSurgeMultiplier(time, weather, demand) applied to
\* a full hour
applySurgeMultiplier(time, weather, demand) ==
    /\ quote' = SurgeQuote(time, time * Hour, weather, demand)
    /\ UNCHANGED <<core, pois, resp, rateRequests, inflight>>

\* Driver.calculateSurgeMultiplier(demand, weather): the time is
\* new Date().getHours(), the hour of the wall clock
driverSurgeMultiplier(demand, weather) ==
    /\ quote' = SurgeQuote(getHours(now), now % Day, weather, demand)
    /\ UNCHANGED <<core, pois, resp, rateRequests, inflight>>

FareDrivers == Drivers \cup {"D0"}     \* "D0": no such driver
Distances == {0, 3, 10}                \* km
Durations == {0, 30}                   \* minutes
Multipliers == {5, 10, 12, 15}         \* multipliers of a request, in tenths

\* Math.round(n / d): the nearest integer, halves upwards
RoundDiv(n, d) == (2 * n + d) \div (2 * d)

\* a price without the distance charge
calculatePrice_NoDistance(d, distance, duration, surgeMultiplier) ==
    RoundDiv((drivers[d].baseRate + duration * drivers[d].perMinuteRate)
             * surgeMultiplier, 10)

\* Driver.calculatePrice, in cents; surgeMultiplier in tenths
calculatePrice(d, distance, duration, surgeMultiplier) ==
    LET basePrice == drivers[d].baseRate
        distancePrice == distance * drivers[d].perKmRate
        timePrice == duration * drivers[d].perMinuteRate
    IN RoundDiv((basePrice + distancePrice + timePrice) * surgeMultiplier,
                10)

\* GET /drivers/:id/fare (driverController.calculateFare)
calculateFare(d, distance, duration, surgeMultiplier) ==
    /\ IF d \notin DOMAIN drivers
       THEN /\ resp' = Response("calculateFare", 0, Null, 404)
            /\ quote' = NoQuote
       ELSE /\ resp' = Response("calculateFare", 0, Null, 200)
            /\ quote' = [op |-> "calculateFare", driver |-> d,
                         distance |-> distance, duration |-> duration,
                         surgeMultiplier |-> surgeMultiplier,
                         fare |-> calculatePrice(d, distance, duration,
                                                 surgeMultiplier)]
    /\ UNCHANGED <<core, pois, rateRequests, inflight>>

\* POST /drivers/:id/fare (calculateDriverFare); the two multipliers are
\* taken from the request body, in tenths; fractions of a cent are carried
\* as numerators until Math.round
calculateDriverFare(d, distance, duration, weatherMultiplier, peakTimeMultiplier) ==
    /\ IF d \notin DOMAIN drivers
       THEN /\ resp' = Response("calculateDriverFare", 0, Null, 404)
            /\ quote' = NoQuote
       ELSE IF ~drivers[d].isOnline
       THEN /\ resp' = Response("calculateDriverFare", 0, Null, 400)
            /\ quote' = NoQuote
       ELSE LET baseRate == drivers[d].baseRate
                distancePrice == distance * drivers[d].perKmRate
                timePrice == duration * drivers[d].perMinuteRate
                subtotal == baseRate + distancePrice + timePrice
                \* in hundredths
                totalMultiplier == weatherMultiplier * peakTimeMultiplier
                \* in hundredths of a cent
                surgeAmount == subtotal * (totalMultiplier - 100)
                estimatedFare == subtotal * 100 + surgeAmount
                \* in two-thousandths of a cent
                platformFee == estimatedFare
                totalFare == estimatedFare * 20 + platformFee
            IN /\ resp' = Response("calculateDriverFare", 0, Null, 200)
               /\ quote' =
                    [op |-> "calculateDriverFare", driver |-> d,
                     distance |-> distance, duration |-> duration,
                     weatherMultiplier |-> weatherMultiplier,
                     peakTimeMultiplier |-> peakTimeMultiplier,
                     baseRate |-> baseRate,
                     distanceCharge |-> distancePrice,
                     timeCharge |-> timePrice,
                     subtotal |-> subtotal,
                     surgeAmount |-> RoundDiv(surgeAmount, 100),
                     platformFee |-> RoundDiv(platformFee, 2000),
                     estimatedFare |-> RoundDiv(estimatedFare, 100),
                     totalFare |-> RoundDiv(totalFare, 2000)]
    /\ UNCHANGED <<core, pois, rateRequests, inflight>>

----------------------------------------------------------------------------
(* Provider profiles *)

\* a request body of one key: the key as sent, and its value
ProfileKeys == {"bio", "verification_status", "verificationStatus"}
ProfileValues == {"verified", "pending"}
ProfileBodies == [key : ProfileKeys, value : ProfileValues]
ProfileActors == {"gina", "dan", "root"}

\* guideValidation.update: Joi rejects a key the schema does not name
GuideUpdateKeys ==
    {"languages", "specializations", "hourlyRate", "bio", "experience",
     "maxGroupSize", "availableDays", "workingHours"}

\* columns of the guides and drivers tables among the keys sent; updated_at
\* is a column of both
GuideColumns == {"bio", "verification_status"}
DriverColumns == {"verification_status"}

\* UPDATE ... SET key = value on a row
SetColumn(row, body) ==
    IF body.key = "verification_status"
    THEN [row EXCEPT !.verificationStatus = body.value]
    ELSE [row EXCEPT !.bio = body.value]

\* Guide.update -> db.guides.update: the store refuses a column the table
\* does not have, and the error is thrown on
GuideUpdate(g, u, op, body) ==
    IF body.key \notin GuideColumns
    THEN /\ resp' = [Response(op, 0, u, 500) EXCEPT !.req = body]
         /\ UNCHANGED guides
    ELSE /\ guides' = [guides EXCEPT ![g] = SetColumn(@, body)]
         /\ resp' = [Response(op, 0, u, 200) EXCEPT !.req = body]

\* Driver.update -> db.drivers.update
DriverUpdate(d, u, op, body) ==
    IF ~DriverWrites \/ body.key \notin DriverColumns
    THEN /\ resp' = [Response(op, 0, u, 500) EXCEPT !.req = body]
         /\ UNCHANGED drivers
    ELSE /\ drivers' = [drivers EXCEPT ![d] = SetColumn(@, body)]
         /\ resp' = [Response(op, 0, u, 200) EXCEPT !.req = body]

\* PUT /guides/:id: validateGuideUpdate, then guideController.updateGuide
updateGuide(g, u, body) ==
    /\ IF body.key \notin GuideUpdateKeys
       THEN /\ resp' = [Response("updateGuide", 0, u, 400) EXCEPT !.req = body]
            /\ UNCHANGED guides
       ELSE IF GuideUser(g) # u /\ ~isStaff(u)
       THEN /\ resp' = [Response("updateGuide", 0, u, 403) EXCEPT !.req = body]
            /\ UNCHANGED guides
       ELSE GuideUpdate(g, u, "updateGuide", body)
    /\ UNCHANGED <<bookings, drivers, incidents, now, ext>>

\* PUT /drivers/:id: driverController.updateDriver, the body not validated
updateDriver(d, u, body) ==
    /\ IF DriverUser(d) # u /\ ~isStaff(u)
       THEN /\ resp' = [Response("updateDriver", 0, u, 403) EXCEPT !.req = body]
            /\ UNCHANGED drivers
       ELSE DriverUpdate(d, u, "updateDriver", body)
    /\ UNCHANGED <<bookings, guides, incidents, now, ext>>

\* PUT /admin/guides/:id/verify: requireRole('admin', 'moderator'), then
\* verifyGuide, which updates the key verificationStatus
verifyGuide(g, u, status) ==
    LET body == [key |-> "verificationStatus", value |-> status]
    IN /\ IF ~isStaff(u)
          THEN /\ resp' = [Response("verifyGuide", 0, u, 403)
                              EXCEPT !.req = body]
               /\ UNCHANGED guides
          ELSE GuideUpdate(g, u, "verifyGuide", body)
       /\ UNCHANGED <<bookings, drivers, incidents, now, ext>>

\* PUT /admin/drivers/:id/verify
verifyDriver(d, u, status) ==
    LET body == [key |-> "verificationStatus", value |-> status]
    IN /\ IF ~isStaff(u)
          THEN /\ resp' = [Response("verifyDriver", 0, u, 403)
                              EXCEPT !.req = body]
               /\ UNCHANGED drivers
          ELSE DriverUpdate(d, u, "verifyDriver", body)
       /\ UNCHANGED <<bookings, guides, incidents, now, ext>>

----------------------------------------------------------------------------
(* Availability *)

\* the statuses the two availability queries keep
SearchStatuses == {"confirmed", "in_progress"}
CheckStatuses == {"confirmed", "pending", "in_progress"}

\* a.toDateString() === b.toDateString()
sameDate(a, b) == a \div Day = b \div Day

\* what getGuideAvailability answers from its catch block
NotAvailable == [today |-> FALSE, thisWeek |-> FALSE, nextAvailable |-> Null]

\* the rows of the query of getGuideAvailability on a bookings table
WeekBookings(bs, g) ==
    {i \in 1..Len(bs) : /\ bs[i].guideId = g
                        /\ bs[i].status \in SearchStatuses
                        /\ bs[i].startDate >= now
                        /\ bs[i].startDate <= now + 7 * Day}

\* findNextAvailableDate, as a day number; called with a working formatter
findNextAvailableDate(bs, g, rows) ==
    LET free == {i \in 0..29 :
                   /\ toLocaleDateString(now + i * Day, "lowercase")
                          \in guides[g].availableDays
                   /\ \A r \in rows : ~sameDate(bs[r].startDate, now + i * Day)}
    IN IF free = {} THEN Null
       ELSE (now \div Day) + CHOOSE i \in free : \A j \in free : i <= j

getGuideAvailability(bs, g) ==
    LET rows == WeekBookings(bs, g)
        todayDayName == toLocaleDateString(now, "lowercase")
    IN IF todayDayName = RangeError THEN NotAvailable
       ELSE [today |-> /\ guides[g].isAvailable
                       /\ todayDayName \in guides[g].availableDays
                       /\ \A r \in rows : ~sameDate(bs[r].startDate, now),
             thisWeek |-> Cardinality(rows) < 7,
             nextAvailable |-> findNextAvailableDate(bs, g, rows)]

Answer(available, reason) == [available |-> available, reason |-> reason]

\* the rows of the conflict query of checkGuideAvailability:
\* start_date <= endDate and end_date >= startDate
Conflicts(bs, g, startDate, endDate) ==
    {i \in 1..Len(bs) : /\ bs[i].guideId = g
                        /\ bs[i].status \in CheckStatuses
                        /\ bs[i].startDate <= endDate
                        /\ bs[i].endDate >= startDate}

checkGuideAvailability(bs, g, startDate, duration) ==
    LET guide == guides[g]
        dayName == toLocaleDateString(startDate, "lowercase")
        startHour == getHours(startDate)
        workingStart == guide.workingHours.start[1]
        workingEnd == guide.workingHours.end[1]
        endHour == startHour + duration
        endDate == startDate + duration * Hour
    IN IF ~guide.isAvailable
       THEN Answer(FALSE, "Guide is currently unavailable")
       ELSE IF dayName = RangeError
       THEN Answer(FALSE, "Error checking availability")
       ELSE IF dayName \notin guide.availableDays
       THEN Answer(FALSE, "Guide is not available on this day")
       ELSE IF startHour < workingStart \/ endHour > workingEnd
       THEN Answer(FALSE, "Outside working hours")
       ELSE IF Conflicts(bs, g, startDate, endDate) # {}
       THEN Answer(FALSE, "Guide has another booking at this time")
       ELSE Answer(TRUE, "Slot available")

\* GET /guides/search: only verified guides are listed, each with its
\* availability.  (The result is also cached by position; the listed guides
\* and their availability are kept here, which a cached copy repeats as
\* long as no guide's verification changes.)
searchGuides ==
    /\ quote' = [op |-> "searchGuides",
                 availability |->
                     [g \in {h \in Guides :
                                guides[h].verificationStatus = "verified"}
                        |-> getGuideAvailability(bookings, g)]]
    /\ resp' = Response("searchGuides", 0, Null, 200)
    /\ UNCHANGED <<core, pois, rateRequests, inflight>>

\* GET /guides/:id/instant-booking-check
checkInstantBooking(g, startDate, duration) ==
    LET isAvailable ==
            IF startDate - now < 24 * Hour
            THEN Answer(FALSE, "Bookings must be made at least 24 hours " \o
                               "in advance")
            ELSE checkGuideAvailability(bookings, g, startDate, duration)
    IN /\ quote' = [op |-> "checkInstantBooking", guide |-> g,
                    startDate |-> startDate, duration |-> duration,
                    available |-> isAvailable.available,
                    reason |-> isAvailable.reason]
       /\ resp' = Response("checkInstantBooking", 0, Null, 200)
       /\ UNCHANGED <<core, pois, rateRequests, inflight>>

----------------------------------------------------------------------------
(* Transition requests in flight *)

(* respondToRideRequest and cancelBooking each await the store twice: the   *)
(* read of the booking, on which the handler decides, and the update, whose *)
(* only filter is the booking's id.  Requests of other callers run between  *)
(* the two awaits.  inflight holds the transition requests that passed      *)
(* their tests: seen is the status the request read, pc the await it        *)
(* stands before.                                                           *)

MaxInflight == 2   \* transition requests accepted

RaceActors == {"alice", "dan"}
RideAnswers == {"accept", "decline"}

Request(op, id, u, booking, val) ==
    [op |-> op, id |-> id, user |-> u, seen |-> booking.status, val |-> val,
     pc |-> "update"]

\* respondToRideRequest up to the tests on the booking it read
respondBegin(id, u, action) ==
    LET booking == bookings[id] IN
    /\ IF booking.driverId = Null
       THEN /\ resp' = Response(action, id, u, 500)
            /\ UNCHANGED inflight
       ELSE IF ~isAssignedDriver(booking, u)
       THEN /\ resp' = Response(action, id, u, 403)
            /\ UNCHANGED inflight
       ELSE IF booking.status # "pending"
       THEN /\ resp' = Response(action, id, u, 400)
            /\ UNCHANGED inflight
       ELSE /\ Len(inflight) < MaxInflight
            /\ inflight' = Append(inflight, Request(action, id, u, booking, 0))
            /\ UNCHANGED resp
    /\ UNCHANGED <<core, pois, quote, rateRequests>>

\* cancelBooking up to booking.calculateRefundAmount()
cancelBegin(id, u, reason) ==
    LET booking == bookings[id] IN
    /\ IF ~requireBookingAccess(booking, u) \/ ~canCancel(booking, u)
       THEN /\ resp' = Response("cancel", id, u, 403)
            /\ UNCHANGED inflight
       ELSE IF ~canBeCancelled(booking)
       THEN /\ resp' = Response("cancel", id, u, 400)
            /\ UNCHANGED inflight
       ELSE /\ Len(inflight) < MaxInflight
            /\ inflight' = Append(inflight,
                                  Request("cancel", id, u, booking,
                                          calculateRefundAmount(booking)))
            /\ UNCHANGED resp
    /\ UNCHANGED <<core, pois, quote, rateRequests>>

\* the update of request i: .update({...}).eq('id', id), and the response
transitionUpdate(i) ==
    LET r == inflight[i] IN
    /\ r.pc = "update"
    /\ bookings' =
          IF r.op = "accept"
          THEN [bookings EXCEPT ![r.id].status = "confirmed"]
          ELSE IF r.op = "decline"
          THEN [bookings EXCEPT
                  ![r.id].status = "cancelled",
                  ![r.id].cancelledBy = r.user,
                  ![r.id].cancellationReason = "Declined by driver",
                  ![r.id].cancelledAt = now]
          ELSE [bookings EXCEPT
                  ![r.id].status = "cancelled",
                  ![r.id].cancelledAt = now,
                  ![r.id].cancelledBy = r.user,
                  ![r.id].cancellationReason = "change of plans",
                  ![r.id].refundAmount = r.val]
    /\ resp' =
          IF r.op = "accept"
          THEN Response(r.op, r.id, r.user,
                        AfterNotify("sendRideConfirmed", 200))
          ELSE IF r.op = "decline"
          THEN Response(r.op, r.id, r.user,
                        AfterNotify("sendRideDeclined", 200))
          ELSE [Response("cancel", r.id, r.user, 200) EXCEPT !.val = r.val]
    /\ inflight' = [inflight EXCEPT ![i].pc = "done"]
    /\ UNCHANGED <<guides, drivers, incidents, now, pois, quote,
                   rateRequests>>

----------------------------------------------------------------------------
(* Payments *)

\* status_code of a PayHere notification: success, pending, canceled,
\* failed, and one the handler does not know (charged back)
StatusCodes == {"2", "0", "-1", "-2", "-3"}
PaymentIds == {"P1", "P2"}
UnknownBooking == 0
NotifiedBookings == {UnknownBooking, 1}

\* the switch over status_code: the payment status written, Null for a
\* code of the default branch
PaymentStatusOf(status_code) ==
    CASE status_code = "2" -> "completed"
      [] status_code = "-1" -> "canceled"
      [] status_code = "-2" -> "failed"
      [] status_code = "0" -> "pending"
      [] OTHER -> Null

\* Booking.updatePaymentStatus(status, 'payhere', payment_id)
updatePaymentStatus(id, status, paymentMethod, paymentId) ==
    [bookings EXCEPT ![id].paymentStatus = status,
                     ![id].paymentMethod = paymentMethod,
                     ![id].paymentId = paymentId]

\* POST /payments/notify, open to every sender; signed: md5sig is the
\* hash of the merchant secret and the fields of the body. The lookup of
\* a booking that does not exist fails in .single() and throws
handlePayHereNotification(id, status_code, payment_id, signed) ==
    LET notified(code) ==
            [Response("notify", id, Null, code) EXCEPT
                !.req = [status_code |-> status_code,
                         payment_id |-> payment_id, signed |-> signed]]
    IN /\ IF ~signed
          THEN /\ resp' = notified(400)
               /\ UNCHANGED bookings
          ELSE IF id \notin BookingIds
          THEN /\ resp' = notified(500)
               /\ UNCHANGED bookings
          ELSE /\ bookings' =
                     IF PaymentStatusOf(status_code) # Null
                     THEN updatePaymentStatus(id,
                              PaymentStatusOf(status_code), "payhere",
                              payment_id)
                     ELSE bookings
               /\ resp' = notified(200)
       /\ UNCHANGED <<guides, drivers, incidents, now, ext>>

----------------------------------------------------------------------------
(* Next-state relations *)

RideRequest ==
    \E u \in RideRequesters, d \in Drivers, f \in Fares, m \in RideMinutes :
        requestRide(u, d, f, m)

\* creation of bookings and rides
NextCreate ==
    \/ Tick(Instants)
    \/ \E u \in {"alice", "bob"}, type \in CreateTypes, g \in Guides,
          d \in Drivers, start \in CreateStarts, h \in CreateHours,
          total \in CreateAmounts :
          \E end \in {start, start + h * Hour} :
              createBooking(u, type, g, d, start, end, h, total)
    \/ (NumRides < MaxCreates /\ RideRequest)
    \/ \E d \in Drivers, u \in Users, b \in BOOLEAN :
          updateOnlineStatus(d, u, b)
    \/ \E g \in Guides, u \in Users, b \in BOOLEAN :
          updateAvailability(g, u, b)

\* the booking lifecycle of the booking controller
NextBooking ==
    \/ Tick(Instants)
    \/ \E id \in BookingIds, u \in BookingActors : confirmBooking(id, u)
    \/ \E id \in BookingIds, u \in BookingActors : startBooking(id, u)
    \/ \E id \in BookingIds, u \in BookingActors : completeBooking(id, u)
    \/ \E id \in BookingIds, u \in BookingActors, r \in CancelReasons :
          cancelBooking(id, u, r)
    \/ \E id \in BookingIds, u \in BookingActors, r \in RateInputs :
          rateBooking(id, u, r.rating, r.review)
    \/ \E id \in BookingIds, u \in BookingActors, b \in UpdateInputs :
          updateBooking(id, u, b.status, b.specialRequests)

\* the ride lifecycle of the ride controller
NextRide ==
    \/ Tick(RideInstants)
    \/ (NumRides < MaxRides /\ RideRequest)
    \/ \E id \in BookingIds, u \in RideActors,
          a \in {"accept", "decline", "other"} :
          respondToRideRequest(id, u, a)
    \/ \E id \in BookingIds, u \in RideActors : startRide(id, u)
    \/ \E id \in BookingIds, u \in RideActors, c \in CompleteInputs :
          completeRide(id, u, c.actualDuration, c.finalFare)
    \/ (Len(incidents) < MaxIncidents
        /\ \E id \in BookingIds, u \in RideActors, m \in SosMessages :
              triggerSOS(id, u, m))

\* rating requests that overlap
NextRating ==
    \/ (NumRides < MaxCreates /\ RideRequest)
    \/ \E id \in BookingIds : completeBooking(id, "root")
    \/ \E id \in BookingIds, u \in Raters, r \in RateInputs :
          rateBookingBegin(id, u, r.rating, r.review)
    \/ \E i \in 1..Len(rateRequests) : rateBookingFind(i)
    \/ \E i \in 1..Len(rateRequests) : rateBookingUpdate(i)

\* who may end a ride the driver does not answer: its requester, and the
\* timer, which calls as an admin
TimeoutActors == {"alice", "root"}
ProviderTimeout == "ProviderTimeout"
TimeoutUpdates == {[status |-> "cancelled", specialRequests |-> Null]}

\* a ride the driver never answers
NextTimeout ==
    \/ Tick(Instants)
    \/ (NumRides < MaxRides /\ RideRequest)
    \/ \E id \in BookingIds, u \in TimeoutActors :
          cancelBooking(id, u, ProviderTimeout)
    \/ \E id \in BookingIds, u \in TimeoutActors, b \in TimeoutUpdates :
          updateBooking(id, u, b.status, b.specialRequests)

\* the safety requests over the life of a ride
NextSafety ==
    \/ (NumRides < MaxRides /\ RideRequest)
    \/ \E id \in BookingIds, u \in RideActors,
          a \in {"accept", "decline"} : respondToRideRequest(id, u, a)
    \/ \E id \in BookingIds, u \in RideActors : startRide(id, u)
    \/ \E id \in BookingIds, u \in RideActors, c \in ShareContacts :
          shareTripLink(id, u, c)
    \/ (Len(incidents) < MaxIncidents
        /\ \E id \in BookingIds, u \in RideActors, m \in SosMessages :
              triggerSOS(id, u, m))
    \/ (Len(incidents) < MaxIncidents
        /\ \E id \in BookingIds, u \in RideActors, t \in IncidentTypes :
              reportIncident(id, u, t))

\* submissions of points of interest
NextPoi ==
    \E u \in PoiSubmitters, name \in PoiNames, pos \in PoiPositions,
       images \in PoiImages :
       Len(pois) < Len(StoredPois) + MaxPois
       /\ createPOI(u, name, pos, images)

\* the review of points of interest
MaxReviewed == 2       \* submissions stored for review
ReviewNames == {GalleFort, JungleBeachCafe}
ReviewPositions == {50, 5000}

NextPoiReview ==
    \/ \E u \in PoiSubmitters, name \in ReviewNames,
          pos \in ReviewPositions :
          Len(pois) < Len(StoredPois) + MaxReviewed
          /\ createPOI(u, name, pos, 1)
    \/ \E id \in 1..Len(pois), u \in PoiActors, b \in PoiUpdates :
          updatePOI(id, u, b)
    \/ \E id \in 1..Len(pois), u \in PoiActors : approvePOI(id, u)
    \/ \E id \in 1..Len(pois), u \in PoiActors, r \in RejectReasons :
          rejectPOI(id, u, r)

\* slots asked for: 06:00 and 08:00 of the second day (the stored booking
\* runs from 06:00 to 08:00), 09:00 of that day and 08:00 of the third
CheckStarts == {30 * Hour, 32 * Hour, 33 * Hour, 56 * Hour}
CheckHours == {2}
CheckInstants == {4 * Hour, 28 * Hour}

\* availability in search results, before a booking and at its creation
NextAvailability ==
    \/ Tick(CheckInstants)
    \/ searchGuides
    \/ \E g \in Guides, start \in CheckStarts, h \in CheckHours :
          checkInstantBooking(g, start, h)
    \/ \E type \in CreateTypes, g \in Guides, d \in Drivers,
          start \in CheckStarts, h \in CheckHours :
          createBooking("bob", type, g, d, start, start + h * Hour, h,
                        100000)
    \/ \E id \in BookingIds : confirmBooking(id, "root")
    \/ \E g \in Guides, b \in BOOLEAN : updateAvailability(g, "gina", b)

\* transition requests that overlap
NextRace ==
    \/ (NumRides < MaxRides /\ RideRequest)
    \/ \E id \in BookingIds, u \in RaceActors, a \in RideAnswers :
          respondBegin(id, u, a)
    \/ \E id \in BookingIds, u \in RaceActors, r \in CancelReasons :
          cancelBegin(id, u, r)
    \/ \E i \in 1..Len(inflight) : transitionUpdate(i)

\* provider profiles and their verification
NextProfile ==
    \/ \E g \in Guides, u \in ProfileActors, b \in ProfileBodies :
          updateGuide(g, u, b)
    \/ \E d \in Drivers, u \in ProfileActors, b \in ProfileBodies :
          updateDriver(d, u, b)
    \/ \E g \in Guides, u \in ProfileActors, v \in ProfileValues :
          verifyGuide(g, u, v)
    \/ \E d \in Drivers, u \in ProfileActors, v \in ProfileValues :
          verifyDriver(d, u, v)
    \/ \E g \in Guides, u \in ProfileActors, b \in BOOLEAN :
          updateAvailability(g, u, b)
    \/ \E d \in Drivers, u \in ProfileActors, b \in BOOLEAN :
          updateOnlineStatus(d, u, b)

\* the pricing engine
NextQuote ==
    \/ Tick(QuoteInstants)
    \/ \E time \in HoursOfDay, weather \in Weathers, demand \in Demands :
          applySurgeMultiplier(time, weather, demand)
    \/ \E demand \in Demands, weather \in Weathers :
          driverSurgeMultiplier(demand, weather)
    \/ \E d \in FareDrivers, km \in Distances, m \in Durations,
          s \in Multipliers : calculateFare(d, km, m, s)
    \/ \E d \in FareDrivers, km \in Distances, m \in Durations,
          w \in Multipliers, p \in Multipliers :
          calculateDriverFare(d, km, m, w, p)

\* payment notifications during the life of a booking
PaymentActors == {"alice", "root"}

NextPayment ==
    \/ \E id \in NotifiedBookings, c \in StatusCodes, p \in PaymentIds,
          signed \in BOOLEAN :
          handlePayHereNotification(id, c, p, signed)
    \/ \E id \in BookingIds, u \in PaymentActors : confirmBooking(id, u)
    \/ \E id \in BookingIds, u \in PaymentActors, r \in CancelReasons :
          cancelBooking(id, u, r)

Next ==
    NextCreate \/ NextBooking \/ NextRating \/ NextRide \/ NextTimeout
        \/ NextSafety \/ NextPoi \/ NextPoiReview \/ NextQuote
        \/ NextProfile \/ NextRace \/ NextAvailability \/ NextPayment

SpecCreate == Init /\ [][NextCreate]_vars
SpecBooking == Init /\ [][NextBooking]_vars
SpecRide == Init /\ [][NextRide]_vars
SpecRating == InitRating /\ [][NextRating]_vars
SpecTimeout == Init /\ [][NextTimeout]_vars
SpecSafety == Init /\ [][NextSafety]_vars
SpecPoi == Init /\ [][NextPoi]_vars
SpecPoiReview == Init /\ [][NextPoiReview]_vars
SpecQuote == Init /\ [][NextQuote]_vars
SpecProfile == Init /\ [][NextProfile]_vars
SpecRace == Init /\ [][NextRace]_vars
SpecAvailability == Init /\ [][NextAvailability]_vars
SpecPayment == Init /\ [][NextPayment]_vars
Spec == Init /\ [][Next]_vars

----------------------------------------------------------------------------
(* Claims *)

\* statuses in which a booking occupies its provider; final statuses
Occupying == {"pending", "confirmed", "in_progress"}
Terminal == {"completed", "cancelled"}

Overlap(b, start, end) == b.startDate < end /\ start < b.endDate

SameProvider(a, b) ==
    \/ a.guideId # Null /\ a.guideId = b.guideId
    \/ a.driverId # Null /\ a.driverId = b.driverId

\* the provider named by a creation request holds an occupying booking
\* that overlaps the requested window
Busy(req) ==
    \E i \in BookingIds :
        /\ bookings[i].status \in Occupying
        /\ SameProvider(req, bookings[i])
        /\ Overlap(bookings[i], req.startDate, req.endDate)

\* a provider named by a creation request is switched off
SwitchedOff(req) ==
    \/ req.guideId # Null /\ ~guides[req.guideId].isAvailable
    \/ req.driverId # Null /\ ~drivers[req.driverId].isOnline

\* C1: a provider never holds two occupying bookings whose windows
\* overlap, and a creation request for a free slot of an available
\* provider succeeds (of the requests for one slot, one is served)
C1_NoDoubleBooking ==
    /\ \A i, j \in BookingIds :
          (/\ i # j
           /\ bookings[i].status \in Occupying
           /\ bookings[j].status \in Occupying
           /\ SameProvider(bookings[i], bookings[j]))
          => ~Overlap(bookings[i], bookings[j].startDate,
                      bookings[j].endDate)
    /\ (resp.op = "createBooking" /\ resp.code # 201)
          => (SwitchedOff(resp.req) \/ Busy(resp.req))

TransitionOps == {"confirm", "start", "complete", "cancel"}

\* C2: on a completed or cancelled booking every confirm, start, complete
\* and cancel request of every actor fails and leaves the status as it was
C2_TerminalRejects ==
    [][\A id \in BookingIds :
         (/\ resp'.op \in TransitionOps
          /\ resp'.id = id
          /\ bookings[id].status \in Terminal)
         => /\ resp'.code # 200
            /\ bookings'[id].status = bookings[id].status]_vars

\* the user behind a provider named on the booking
NamedProvider(b, u) ==
    \/ b.guideId # Null /\ GuideUser(b.guideId) = u
    \/ b.driverId # Null /\ DriverUser(b.driverId) = u

WindowOpen(b) ==
    /\ b.status \in {"pending", "confirmed"}
    /\ b.startDate - now > 2 * Hour

\* C3: a cancel request of the requester, a named provider or an admin is
\* accepted only while the status is pending or confirmed and the start is
\* more than two hours away; otherwise it is answered with the
\* window-closed error (400) and the booking is unchanged
C3_CancelWindow ==
    [][\A id \in BookingIds :
         (/\ resp'.op = "cancel"
          /\ resp'.id = id
          /\ \/ resp'.user = bookings[id].userId
             \/ NamedProvider(bookings[id], resp'.user)
             \/ role(resp'.user) = "admin")
         => /\ resp'.code = 200 => WindowOpen(bookings[id])
            /\ ~WindowOpen(bookings[id])
               => /\ resp'.code = 400
                  /\ bookings'[id] = bookings[id]]_vars

\* C4: an accepted cancel records and returns the whole total when the
\* start is more than 24 hours away and half of it when the start is
\* between 2 and 24 hours away
C4_RefundTiers ==
    (resp.op = "cancel" /\ resp.code = 200) =>
        LET b == bookings[resp.id]
            ahead == b.startDate - b.cancelledAt
            due == IF ahead > 24 * Hour THEN b.totalAmount
                   ELSE (b.totalAmount * 50) \div 100
        IN /\ b.refundAmount = due
           /\ resp.val = due

\* C5: a booking that carries a rating takes no further rating (the call
\* fails; booking and provider rows stay as they were); a rating by a
\* non-requester or on a booking that is not completed is rejected with
\* no change
C5_RateOnce ==
    [][\A id \in BookingIds :
         (/\ resp'.op = "rate"
          /\ resp'.id = id
          /\ \/ bookings[id].rating # 0
             \/ resp'.user # bookings[id].userId
             \/ bookings[id].status # "completed")
         => /\ resp'.code # 200
            /\ UNCHANGED <<bookings, guides, drivers>>]_vars

AdvanceFrom == [confirm |-> "pending", start |-> "confirmed",
                complete |-> "in_progress"]
AdvanceTo == [confirm |-> "confirmed", start |-> "in_progress",
              complete |-> "completed"]

\* C6: the status never skips a state: confirm acts only on a pending
\* booking, start only on a confirmed one, complete only on one in
\* progress; from any other status the request fails and the status stays
C6_NoSkip ==
    [][\A id \in BookingIds :
         (resp'.op \in DOMAIN AdvanceFrom /\ resp'.id = id)
         => IF bookings[id].status = AdvanceFrom[resp'.op]
            THEN resp'.code = 200
                    => bookings'[id].status = AdvanceTo[resp'.op]
            ELSE /\ resp'.code # 200
                 /\ bookings'[id].status = bookings[id].status]_vars

\* C7: confirm, start and complete are authorized exactly for the user of
\* a provider named on the booking and for an admin; every other user is
\* answered 403 and the booking is unchanged
C7_ProviderAuthorized ==
    [][\A id \in BookingIds :
         (resp'.op \in DOMAIN AdvanceFrom /\ resp'.id = id)
         => IF \/ NamedProvider(bookings[id], resp'.user)
               \/ role(resp'.user) = "admin"
            THEN resp'.code # 403
            ELSE /\ resp'.code = 403
                 /\ bookings'[id] = bookings[id]]_vars

C10_CommissionRates ==
    \A id \in BookingIds :
        LET b == bookings[id] IN
        b.status = "completed" =>
            /\ b.type = "guide"
               => b.commission * 100 =
                     b.totalAmount
                     * (IF guides[b.guideId].verificationStatus = "verified"
                        THEN 10 ELSE 15)
            /\ b.type \in {"driver", "ride"}
               => b.commission * 100 = b.totalAmount * 5

\* the row a submission stores
Submitted == pois'[Len(pois')]

C12_SurgeRange ==
    quote.op = "calculateSurgeMultiplier"
        => quote.multiplier >= 100 /\ quote.multiplier <= 200

\* every bump at once: the evening rush of a Saturday, in a storm, under
\* high demand
C12_EveryBump ==
    /\ quote.op = "calculateSurgeMultiplier"
    /\ getDay(now) = 6
    /\ quote.time = 18
    /\ quote.weather = "storm"
    /\ quote.demand = 81
    /\ quote.multiplier = 185

\* the subtotal of the spec: base rate, distance charge and time charge
Subtotal(d, distance, duration) ==
    drivers[d].baseRate + distance * drivers[d].perKmRate
        + duration * drivers[d].perMinuteRate

\* C17: a fare estimate has subtotal = baseRate + km * perKmRate
\* + minutes * perMinuteRate, surgeAmount = subtotal * (multiplier - 1) and
\* total = subtotal + surgeAmount; at base 300, 50 per km, 5 per minute,
\* 10 km, 30 minutes and multiplier 1 it is 950, 0 and 950
C17_FareEstimate ==
    /\ quote.op = "calculateDriverFare" =>
          LET subtotal ==
                  Subtotal(quote.driver, quote.distance, quote.duration)
              \* in hundredths
              multiplier ==
                  quote.weatherMultiplier * quote.peakTimeMultiplier
          IN /\ quote.subtotal = subtotal
             /\ quote.surgeAmount
                    = RoundDiv(subtotal * (multiplier - 100), 100)
             /\ quote.estimatedFare = quote.subtotal + quote.surgeAmount
             /\ (quote.distance = 10 /\ quote.duration = 30
                 /\ multiplier = 100)
                    => /\ quote.subtotal = 95000
                       /\ quote.surgeAmount = 0
                       /\ quote.estimatedFare = 95000
    /\ quote.op = "calculateFare" =>
          LET subtotal ==
                  Subtotal(quote.driver, quote.distance, quote.duration)
          IN /\ quote.fare
                    = subtotal + RoundDiv(subtotal
                                          * (quote.surgeMultiplier - 10), 10)
             /\ (quote.distance = 10 /\ quote.duration = 30
                 /\ quote.surgeMultiplier = 10)
                    => quote.fare = 95000

\* the estimate of the example, and one with a surge
C17_Example ==
    /\ quote.op = "calculateDriverFare"
    /\ drivers[quote.driver].baseRate = 30000
    /\ drivers[quote.driver].perKmRate = 5000
    /\ drivers[quote.driver].perMinuteRate = 500
    /\ quote.distance = 10
    /\ quote.duration = 30
    /\ quote.weatherMultiplier = 10
    /\ quote.peakTimeMultiplier = 10
    /\ quote.subtotal = 95000
    /\ quote.surgeAmount = 0
    /\ quote.estimatedFare = 95000

\* the provider row a rating of booking b is applied to, in a store
RatedProvider(b, gs, ds) ==
    IF b.guideId # Null THEN gs[b.guideId] ELSE ds[b.driverId]

\* C18: a successful rating r of a booking whose provider has average a
\* over n reviews leaves the provider with n + 1 reviews and the average
\* (a * n + r) / (n + 1) rounded to one decimal; 4.0 over 10 reviews rated
\* 5 becomes 4.1
C18_RunningAverage ==
    [][(resp'.op = "rate" /\ resp'.code = 200) =>
          LET b == bookings'[resp'.id]
              old == RatedProvider(b, guides, drivers)
              new == RatedProvider(b, guides', drivers')
              n == old.totalReviews
              \* ten times the exact average, times n + 1
              sum10 == old.rating * n + 10 * b.rating
              diff == new.rating * (n + 1) - sum10
          IN /\ new.totalReviews = n + 1
             /\ 2 * diff <= n + 1
             /\ 2 * diff >= 0 - (n + 1)
             /\ (old.rating = 40 /\ n = 10 /\ b.rating = 5)
                    => new.rating = 41
      ]_vars

\* guide G1, at 4.0 over 10 reviews, has been rated 5
C18_FourPointOne ==
    /\ resp.op = "rate"
    /\ resp.code = 200
    /\ bookings[resp.id].guideId = "G1"
    /\ bookings[resp.id].rating = 5
    /\ guides["G1"].totalReviews = 11
    /\ guides["G1"].rating = 41

\* bookings of a provider that reach completed in a step
Completing(field, p) ==
    {id \in BookingIds : /\ bookings[id][field] = p
                         /\ bookings[id].status # "completed"
                         /\ bookings'[id].status = "completed"}

\* C14: whatever complete requests are sent, in whatever order and however
\* often, a provider's total_bookings / total_rides grows by exactly one
\* for each booking that reaches completed; a complete request for a
\* booking that is completed already changes nothing
C14_CountedOnce ==
    [][/\ \A g \in Guides :
             guides'[g].totalBookings
                 = guides[g].totalBookings
                       + Cardinality(Completing("guideId", g))
       /\ \A d \in Drivers :
             drivers'[d].totalRides
                 = drivers[d].totalRides
                       + Cardinality(Completing("driverId", d))
       /\ (resp'.op = "complete"
           /\ bookings[resp'.id].status = "completed")
              => <<bookings, guides, drivers>>' = <<bookings, guides, drivers>>
      ]_vars

\* the one write allowed on a completed booking: its first rating
FirstRating(old, new) ==
    /\ old.status = "completed"
    /\ old.rating = 0
    /\ new = [old EXCEPT !.rating = new.rating, !.review = new.review]

\* C15: once a booking is completed or cancelled, no request of the
\* requester, a provider or an admin, the generic update included, changes
\* its status or any other field, except the single rating and review
\* write on a completed booking
C15_TerminalFrozen ==
    [][\A id \in BookingIds :
           bookings[id].status \in Terminal
               => \/ bookings'[id] = bookings[id]
                  \/ /\ resp'.op = "rate"
                     /\ resp'.id = id
                     /\ FirstRating(bookings[id], bookings'[id])
      ]_vars

SafetyOps == {"share", "sos", "report"}

\* C16: shareTrip, triggerSOS and reportIncident leave the booking
\* unchanged: after each of them, accepted or refused, the status and every
\* other field of every booking are what they were before the call
C16_SafetyFrame ==
    [][resp'.op \in SafetyOps => bookings' = bookings]_vars

\* an incident was reported, and stored, for a ride under way
C16_ReportOnRide ==
    /\ resp.op = "report"
    /\ bookings[resp.id].type = "ride"
    /\ bookings[resp.id].status = "in_progress"
    /\ \E i \in 1..Len(incidents) :
          /\ incidents[i].bookingId = resp.id
          /\ incidents[i].status = "under_review"

RideTransitions ==
    {"requestRide", "accept", "decline", "startRide", "completeRide"}

RideNeverTimedOut ==
    \A id \in BookingIds :
        bookings[id].type = "ride"
            => bookings[id].cancellationReason # ProviderTimeout

\* the rating requests for bookings of a provider (field: guideId or
\* driverId)
RequestsOf(field, p) ==
    {i \in 1..Len(rateRequests) : bookings[rateRequests[i].id][field] = p}

\* request i has been answered 200: it has passed its last await, and no
\* update it made was refused
Succeeded(i) ==
    /\ rateRequests[i].pc = "done"
    /\ bookings[rateRequests[i].id].driverId # Null => DriverWrites

\* the row that results from applying ratings one after the other
ApplyRatings(p, ratings) ==
    LET apply[k \in 0..Len(ratings)] ==
            IF k = 0 THEN p ELSE updateRating(apply[k - 1], ratings[k])
    IN apply[Len(ratings)]

\* the rows that result from the requests of a set in their possible orders
Serialized(p, reqs) ==
    LET k == Cardinality(reqs)
        orders == {f \in [1..k -> reqs] :
                       \A a, b \in 1..k : a # b => f[a] # f[b]}
    IN {ApplyRatings(p, [n \in 1..k |-> rateRequests[f[n]].rating]) :
            f \in orders}

\* the requests of a set have all succeeded, each for a booking of its own,
\* and the provider row is the stored row with all their ratings applied
AllApplied(reqs, row, stored) ==
    (/\ \A i \in reqs : Succeeded(i)
     /\ \A i, j \in reqs : i # j => rateRequests[i].id # rateRequests[j].id)
        => /\ row.totalReviews = stored.totalReviews + Cardinality(reqs)
           /\ [rating |-> row.rating, totalReviews |-> row.totalReviews]
                  \in Serialized([rating |-> stored.rating,
                                  totalReviews |-> stored.totalReviews], reqs)

\* C13: rating updates of one provider are serialized: when k rating
\* requests for k distinct completed bookings of the same provider have all
\* succeeded, however they interleaved, the provider's review count has
\* grown by exactly k and the stored average reflects all k ratings
C13_NoLostUpdate ==
    /\ \A g \in Guides :
          AllApplied(RequestsOf("guideId", g), guides[g], StoredGuides[g])
    /\ \A d \in Drivers :
          AllApplied(RequestsOf("driverId", d), drivers[d], StoredDrivers[d])

\* C21: a POI's approval status is set once, by the insert trigger;
\* afterwards it changes only through an action of a moderator or admin,
\* never through a request of the POI's creator or of another user who is
\* not a moderator
C21_ApprovalByStaffOnly ==
    [][/\ \A i \in 1..Len(pois) :
             pois'[i].approval_status # pois[i].approval_status
                 => /\ isStaff(resp'.user)
                    /\ resp'.op \in {"updatePOI", "approvePOI", "rejectPOI"}
       /\ Len(pois') > Len(pois)
             => /\ resp'.op = "createPOI"
                /\ Submitted.approval_status
                       = auto_approve_poi(Submitted.name, Submitted.position)
      ]_vars

\* the creator of a POI held for review has asked, through the update
\* request, for its approval
C21_CreatorAsked ==
    /\ resp.op = "updatePOI"
    /\ resp.code # 403
    /\ pois[resp.id].createdBy = resp.user
    /\ ~isStaff(resp.user)
    /\ pois[resp.id].approval_status = "needs_review"

\* C22: the verification status of a guide or a driver changes only in a
\* step of a moderator's or administrator's request: no request of the
\* owning provider, the profile update included, changes it
C22_VerificationByStaffOnly ==
    [][/\ \A g \in Guides :
             guides'[g].verificationStatus # guides[g].verificationStatus
                 => isStaff(resp'.user)
       /\ \A d \in Drivers :
             drivers'[d].verificationStatus # drivers[d].verificationStatus
                 => isStaff(resp'.user)
      ]_vars

\* the owning driver has sent a profile update that names the
\* verification status column
C22_OwnerAsked ==
    /\ resp.op = "updateDriver"
    /\ resp.user = DriverUser("D1")
    /\ resp.code # 403
    /\ resp.req.key = "verification_status"
    /\ resp.req.value # drivers["D1"].verificationStatus

\* transition requests for one booking that both read it pending
Rivals(i, j) ==
    /\ i # j
    /\ inflight[i].id = inflight[j].id
    /\ inflight[i].seen = "pending"
    /\ inflight[j].seen = "pending"

\* C23: of two concurrent transition requests for one booking that both
\* read it pending (the driver's accept and decline, or an accept and the
\* requester's cancel) only one takes effect and the other fails, and a
\* booking written cancelled is never afterwards written confirmed or
\* in_progress
C23_OneTransitionWins ==
    [][/\ \A i, j \in 1..Len(inflight') :
             Rivals(i, j)'
                 => ~(inflight'[i].pc = "done" /\ inflight'[j].pc = "done")
       /\ \A id \in BookingIds :
             bookings[id].status = "cancelled"
                 => bookings'[id].status \notin {"confirmed", "in_progress"}
      ]_vars

AsConfirmed(bs) ==
    [i \in 1..Len(bs) |-> IF bs[i].status = "pending"
                          THEN [bs[i] EXCEPT !.status = "confirmed"]
                          ELSE bs[i]]

\* guide g holds a pending booking that starts today, later than now
PendingToday(g) ==
    \E i \in BookingIds : /\ bookings[i].guideId = g
                          /\ bookings[i].status = "pending"
                          /\ bookings[i].startDate >= now
                          /\ sameDate(bookings[i].startDate, now)

\* guide g holds a pending booking that overlaps the window
PendingIn(g, start, end) ==
    \E i \in BookingIds : /\ bookings[i].guideId = g
                          /\ bookings[i].status = "pending"
                          /\ Overlap(bookings[i], start, end)

\* what search results and the instant booking check say of every guide
PendingOccupies ==
    \A g \in Guides :
        /\ getGuideAvailability(bookings, g).today
              = getGuideAvailability(AsConfirmed(bookings), g).today
        /\ PendingToday(g) => ~getGuideAvailability(bookings, g).today
        /\ \A start \in CheckStarts, h \in CheckHours :
              /\ checkGuideAvailability(bookings, g, start, h).available
                    = checkGuideAvailability(AsConfirmed(bookings), g, start,
                                             h).available
              /\ PendingIn(g, start, start + h * Hour)
                    => ~checkGuideAvailability(bookings, g, start,
                                               h).available

ScheduleAdmits(g, start, duration) ==
    /\ guides[g].isAvailable
    /\ WeekdayLower[DayIndex(start)] \in guides[g].availableDays
    /\ getHours(start) >= guides[g].workingHours.start[1]
    /\ getHours(start) + duration <= guides[g].workingHours.end[1]

\* guide g holds an occupying booking [s, e) with start < e and s < end
Conflicting(g, start, end) ==
    \E i \in BookingIds : /\ bookings[i].guideId = g
                          /\ bookings[i].status \in Occupying
                          /\ Overlap(bookings[i], start, end)

\* C26: the conflict test is a half-open interval overlap: a window
\* [start, end) the schedule admits is available if and only if no occupying
\* booking [s, e) of the guide has start < e and s < end; a window that
\* starts when a booking ends, or ends when one starts, is available
C26_HalfOpenOverlap ==
    [][(/\ resp'.op = "checkInstantBooking"
        /\ quote'.startDate - now >= 24 * Hour
        /\ ScheduleAdmits(quote'.guide, quote'.startDate, quote'.duration))
          => (quote'.available
                <=> ~Conflicting(quote'.guide, quote'.startDate,
                                 quote'.startDate + quote'.duration * Hour))
      ]_vars

\* the schedule of a provider row refuses the window: the weekday is not
\* one of its days, or the hours are not within its working hours
OffSchedule(p, start, duration) ==
    \/ WeekdayLower[DayIndex(start)] \notin p.availableDays
    \/ getHours(start) < p.workingHours.start[1]
    \/ getHours(start) + duration > p.workingHours.end[1]

\* a provider named by a creation request is switched off, or its schedule
\* refuses the window
Refused(req) ==
    \/ /\ req.guideId # Null
       /\ \/ ~guides[req.guideId].isAvailable
          \/ OffSchedule(guides[req.guideId], req.startDate, req.duration)
    \/ /\ req.driverId # Null
       /\ \/ ~drivers[req.driverId].isOnline
          \/ OffSchedule(drivers[req.driverId], req.startDate, req.duration)

\* C27: createBooking is rejected (400, the provider is not available for
\* the selected time) and creates no booking when a named provider is
\* switched off, when the weekday of the start is not one of its days, or
\* when [start hour, start hour + duration) is not within its working
\* hours; the guide is tested before the driver, and both before anything
\* is written
C27_RejectedBySchedule ==
    [][(resp'.op = "createBooking" /\ Refused(resp'.req))
          => (resp'.code = 400 /\ bookings' = bookings)
      ]_vars

\* a time of day within 07:00-09:00 or 17:00-19:00
RushHour(minute) ==
    \/ minute >= 7 * Hour /\ minute <= 9 * Hour
    \/ minute >= 17 * Hour /\ minute <= 19 * Hour

Weekend == getDay(now) \in {0, 6}

\* 1.0 plus the bumps that apply, capped at 2.0, in hundredths
SurgeOf(minute, weather, demand) ==
    Min(100 + (IF ~Weekend /\ RushHour(minute) THEN 20 ELSE 0)
            + (IF Weekend THEN 10 ELSE 0)
            + (IF weather = "rain" THEN 15 ELSE 0)
            + (IF weather = "storm" THEN 25 ELSE 0)
            + (IF demand > 80 THEN 30 ELSE IF demand > 60 THEN 15 ELSE 0),
        200)

\* C28: the surge multiplier is 1.0 plus exactly the bumps that apply,
\* capped at 2.0: 0.2 for the rush hours, on weekdays only and only for a
\* time within 07:00-09:00 or 17:00-19:00 (09:30 on a weekday and 08:00 on
\* a Saturday get none), 0.1 on weekends, 0.15 in rain, 0.25 in a storm,
\* 0.3 when demand is above 0.8 and else 0.15 when it is above 0.6
C28_SurgeBumps ==
    [][(quote' # quote /\ quote'.op = "calculateSurgeMultiplier")
          => quote'.multiplier
                = SurgeOf(quote'.minute, quote'.weather, quote'.demand)
      ]_vars

\* two names are similar: equal after normalisation, or one normalised
\* name contained in the other, or lengths in a ratio above 0.6
SimilarNames(a, b) ==
    LET x == NormalizeName(a)
        y == NormalizeName(b)
    IN \/ x = y
       \/ Contains(x, y)
       \/ Contains(y, x)
       \/ Len(x) <= Len(y) /\ Len(x) * 10 > Len(y) * 6
       \/ Len(y) <= Len(x) /\ Len(y) * 10 > Len(x) * 6

\* the pairs of similar names
SimilarPairs ==
    UNION {IF SimilarNames(p[1], p[2]) THEN {p} ELSE {} :
              p \in PoiNames \X PoiNames}

\* the stored rows that hold a submission for review: status active or
\* approved, within 0.3 km, similar name
Lookalikes(name, pos) ==
    {i \in 1..Len(pois) :
        /\ pois[i].status \in {"active", "approved"}
        /\ Distance(pos, pois[i].position) <= 300
        /\ <<name, pois[i].name>> \in SimilarPairs}

PaymentKept(id) == bookings'[id].paymentStatus = bookings[id].paymentStatus

\* C30: once a success notification has set a booking's payment status to
\* completed, a later notification for the same booking with a pending,
\* failed or canceled status code does not change the payment status; and
\* no payment notification changes the lifecycle status of a booking
C30_PaymentMonotonic ==
    [][resp'.op = "notify" =>
         /\ \A id \in BookingIds :
               bookings'[id].status = bookings[id].status
         /\ \A id \in BookingIds :
               (/\ resp'.id = id
                /\ bookings[id].paymentStatus = "completed"
                /\ resp'.req.status_code \in {"0", "-2", "-1"})
                  => PaymentKept(id)]_vars

====
